---- MODULE Spec2Model ----
(***************************************************************************)
(* Real-time messaging of socialconnect: the MessageService operations     *)
(* over the relational store (backend/src/services/message.service.ts) and *)
(* the Socket.IO gateway (backend/src/socket/handlers.ts).                 *)
(*                                                                         *)
(* A handler is an async function: it runs to its next `await` (a store    *)
(* call) and is suspended there.  Every store call is one atomic step of   *)
(* the database; the code that follows the last store call (emits and the  *)
(* acknowledgment) is one more step.  Handlers of different events - also  *)
(* of the same connection - interleave at these steps.                     *)
(***************************************************************************)
EXTENDS Integers, Sequences, FiniteSets, TLC

\* ------------------------------------------------------------------ bounds
MaxTasks == 3          \* intent events handled in one behaviour
MaxSockets == 3        \* connections opened in one behaviour
MaxConcurrent == 2     \* handlers that overlap in one behaviour of SpecConc

Users == {"u1", "u2", "u3"}
Emojis == {"thumbsup"}
TaskIds == 1..MaxTasks
SocketIds == 1..MaxSockets
Ids == 1..MaxTasks     \* ids the store hands out (one conversation, one message per task at most)

\* ----------------------------------------------------------------- content
\* A string is a sequence of runs [ch, n]: n >= 1 copies of a character of
\* class ch ("x": not whitespace, "sp": a space, "tab": other whitespace).
\* Adjacent runs have different classes.
Run(ch, n) == [ch |-> ch, n |-> n]
Undefined == << Run("undefined", 0) >>      \* the field is missing from the payload
Empty == << >>
Blank == << Run("sp", 2) >>
Hi == << Run("x", 2) >>
Hello == << Run("x", 5) >>
Padded == << Run("sp", 1), Run("x", 1), Run("tab", 1), Run("sp", 2), Run("x", 1), Run("sp", 1) >>
TooLong == << Run("x", 10001) >>

IsWs(ch) == ch \in {"sp", "tab"}

RECURSIVE StrLen(_)
StrLen(s) == IF s = << >> THEN 0 ELSE s[1].n + StrLen(Tail(s))

RECURSIVE TrimStart(_)
TrimStart(s) == IF s # << >> /\ IsWs(s[1].ch) THEN TrimStart(Tail(s)) ELSE s

RECURSIVE TrimEnd(_)
TrimEnd(s) ==
  IF s # << >> /\ IsWs(s[Len(s)].ch) THEN TrimEnd(SubSeq(s, 1, Len(s) - 1)) ELSE s

Trim(s) == TrimEnd(TrimStart(s))

\* replace(/\s+/g, ' '): every maximal run of whitespace becomes one space
RECURSIVE CollapseWs(_)
CollapseWs(s) ==
  IF s = << >> THEN << >>
  ELSE IF IsWs(s[1].ch) THEN << Run("sp", 1) >> \o CollapseWs(TrimStart(s))
  ELSE << s[1] >> \o CollapseWs(Tail(s))

sanitizeString(input) == CollapseWs(Trim(input))

\* input.trim() on a value that is not a string throws
sanitizeThrows(input) == input = Undefined

MessageLengthLimit == 10000

\* validateRequired: a field is missing when it is falsy or blank
IsMissing(value) == value = Undefined \/ value = Empty \/ Trim(value) = Empty

\* REST middleware of POST message routes; "ok" stands for next()
validateSendMessage(content, recipientId) ==
  IF IsMissing(content) \/ recipientId = "" THEN "ValidationError"
  ELSE IF StrLen(Trim(content)) = 0 THEN "ValidationError"
  ELSE IF StrLen(content) > MessageLengthLimit THEN "ValidationError"
  ELSE "ok"

\* ------------------------------------------------------------------- state
VARIABLES
  conversations,   \* store: rows [id, updatedAt]
  participants,    \* store: rows [conversationId, userId, lastReadAt]
  messages,        \* store: rows [id, conversationId, senderId, content, createdAt, isEdited, editedAt]
  reactions,       \* store: rows [messageId, userId, emoji]
  nextConvId,      \* store: next fresh conversation id
  nextMsgId,       \* store: next fresh message id
  now,             \* the clock read by new Date() / now()
  sockets,         \* gateway: socket id -> [state, userId]
  rooms,           \* gateway: socket id -> set of conversation ids whose room it joined
  onlineUsers,     \* gateway: userId -> socket id (0: no entry)
  wire,            \* history: socket id -> the token its handshake carried and the presence
                   \* broadcasts it caused (recorded by SpecAuth)
  tasks,           \* handler invocations: task id -> its arguments, position, locals and outcome
  pre,             \* history: task id -> the store as it was when the task's event arrived
                   \* (recorded by the specifications that run handlers one at a time)
  chat             \* client: the state of useChatStore, [conversations, activeConversationId]

store == << conversations, participants, messages, reactions >>
storeVars == << conversations, participants, messages, reactions, nextConvId, nextMsgId, now >>
gatewayVars == << sockets, rooms, onlineUsers, wire >>
vars == << conversations, participants, messages, reactions, nextConvId, nextMsgId, now,
           sockets, rooms, onlineUsers, wire, tasks, pre, chat >>

\* create<ChatState>: conversations: [], activeConversationId: null (0)
NoChat == [conversations |-> << >>, activeConversationId |-> 0]

NoWire == [token |-> "", online |-> << >>, offline |-> << >>]

NoSnapshot == << {}, {}, {}, {} >>

IdleTask ==
  [ op |-> "none", pc |-> "idle", socket |-> 0, userId |-> "", cb |-> FALSE,
    recipientId |-> "", content |-> Empty, messageId |-> 0, emoji |-> "", conversationId |-> 0,
    conv |-> 0, msg |-> 0, existing |-> FALSE, action |-> "", parts |-> {},
    page |-> 0, limit |-> 0, result |-> << >>, stamp |-> 0,
    claimed |-> "", error |-> "none", acks |-> 0, ackSuccess |-> FALSE,
    emitted |-> {}, delivered |-> {} ]

\* -------------------------------------------------------------- store reads
ConvIds == {c.id : c \in conversations}
PartUsers(c) == {p.userId : p \in {q \in participants : q.conversationId = c}}
MsgIds == {m.id : m \in messages}
MsgById(id) == CHOOSE m \in messages : m.id = id
MsgsOf(c) == {m \in messages : m.conversationId = c}

\* a lookup that asks for `every` participant to be the user, where the code asks for `some`
ConvsOfPairEvery(a, b) == {c \in ConvIds : PartUsers(c) = {a} /\ PartUsers(c) = {b}}

\* prisma.conversation.findFirst where both users are participants
ConvsOfPair(a, b) == {c \in ConvIds : a \in PartUsers(c) /\ b \in PartUsers(c)}

Init ==
  /\ conversations = {}
  /\ participants = {}
  /\ messages = {}
  /\ reactions = {}
  /\ nextConvId = 1
  /\ nextMsgId = 1
  /\ now = 1
  /\ sockets = [s \in SocketIds |-> [state |-> "unused", userId |-> ""]]
  /\ rooms = [s \in SocketIds |-> {}]
  /\ onlineUsers = [u \in Users |-> 0]
  /\ wire = [s \in SocketIds |-> NoWire]
  /\ chat = NoChat
  /\ tasks = [t \in TaskIds |-> IdleTask]
  /\ pre = [t \in TaskIds |-> NoSnapshot]

\* ---------------------------------------------------------------- gateway
\* io.on('connection'): onlineUsers.set(userId, socket.id)
RegistryAfterConnect(u, s) == [onlineUsers EXCEPT ![u] = s]

\* a disconnect handler that leaves the registry alone
RegistryAfterDisconnectKept(u, s) == onlineUsers

\* socket.on('disconnect'): onlineUsers.delete(userId)
RegistryAfterDisconnect(u, s) == [onlineUsers EXCEPT ![u] = 0]

\* a gateway that closes the user's earlier connections when a new one arrives
SocketsAfterConnectClosing(u, s) ==
  [r \in SocketIds |->
     IF r = s THEN [state |-> "connected", userId |-> u]
     ELSE IF sockets[r].state = "connected" /\ sockets[r].userId = u
       THEN [sockets[r] EXCEPT !.state = "disconnected"]
     ELSE sockets[r]]

\* what a connection does to the sockets that were already there
SocketsAfterConnect(u, s) == [sockets EXCEPT ![s] = [state |-> "connected", userId |-> u]]

\* io.use + io.on('connection') with a token that verifies as user u
Connect(s, u) ==
  /\ sockets[s].state = "unused"
  /\ \A r \in SocketIds : r < s => sockets[r].state # "unused"
  /\ sockets' = SocketsAfterConnect(u, s)
  /\ onlineUsers' = RegistryAfterConnect(u, s)
  /\ UNCHANGED << storeVars, rooms, tasks, pre, chat >>

\* transport-level close; Socket.IO takes the socket out of its rooms
Disconnect(s) ==
  /\ sockets[s].state = "connected"
  /\ sockets' = [sockets EXCEPT ![s].state = "disconnected"]
  /\ rooms' = [rooms EXCEPT ![s] = {}]
  /\ onlineUsers' = RegistryAfterDisconnect(sockets[s].userId, s)
  /\ UNCHANGED << storeVars, tasks, pre, chat >>

\* socket.on('conversation:join'): no check of the id against the store
Join(s, c) ==
  /\ sockets[s].state = "connected"
  /\ c \notin rooms[s]
  /\ rooms' = [rooms EXCEPT ![s] = @ \cup {c}]
  /\ UNCHANGED << storeVars, sockets, onlineUsers, wire, tasks, pre, chat >>

\* socket.on('conversation:leave')
Leave(s, c) ==
  /\ sockets[s].state = "connected"
  /\ c \in rooms[s]
  /\ rooms' = [rooms EXCEPT ![s] = @ \ {c}]
  /\ UNCHANGED << storeVars, sockets, onlineUsers, wire, tasks, pre, chat >>

\* the tokens a handshake can carry: none, one signed by someone else in the
\* name of u1, one of u2 that has expired, and the access tokens of u1 and u2
Tokens == {"none", "forged_u1", "expired_u2", "access_u1", "access_u2"}

\* the userId in the token's payload
TokenUser(token) == IF token \in {"forged_u1", "access_u1"} THEN "u1" ELSE "u2"

\* a verification that reads the payload without checking signature and expiry
TokenDecodes(token) == TRUE

\* jwt.verify(token, config.jwtAccessSecret) returns the payload (or throws)
TokenVerifies(token) == token \in {"access_u1", "access_u2"}

\* an emit to every connected socket, the one it is about included (io.emit)
BroadcastToAll(s, userId) ==
  [userId |-> userId, to |-> {r \in SocketIds : r = s \/ sockets[r].state = "connected"}]

\* socket.broadcast.emit(ev, { userId }): to every connected socket but this one
Broadcast(s, userId) ==
  [userId |-> userId, to |-> {r \in SocketIds \ {s} : sockets[r].state = "connected"}]

\* a handshake arrives: io.use checks the token; next() leads to
\* io.on('connection'), next(new Error(...)) refuses the connection
Handshake(s, token) ==
  IF token # "none" /\ TokenVerifies(token)
    THEN /\ Connect(s, TokenUser(token))
         /\ wire' = [wire EXCEPT ![s] = [token |-> token,
                                          online |-> << Broadcast(s, TokenUser(token)) >>,
                                          offline |-> << >>]]
    ELSE /\ sockets[s].state = "unused"
         /\ \A r \in SocketIds : r < s => sockets[r].state # "unused"
         /\ sockets' = [sockets EXCEPT ![s].state = "rejected"]
         /\ wire' = [wire EXCEPT ![s].token = token]
         /\ UNCHANGED << storeVars, rooms, onlineUsers, tasks, pre, chat >>

\* the transport of a connected socket closes: the disconnect handler runs
Close(s) ==
  /\ Disconnect(s)
  /\ wire' = [wire EXCEPT ![s].offline = Append(@, Broadcast(s, sockets[s].userId))]

\* --------------------------------------------------------- handler outcomes
\* an emitted event: to a room (room # 0) or to one socket (to # 0), with its payload;
\* except # 0 is the socket that socket.to(room) leaves out
Payload(messageId, conversationId, content, isEdited, action) ==
  [messageId |-> messageId, conversationId |-> conversationId, content |-> content,
   isEdited |-> isEdited, action |-> action]
Event(ev, room, to, data) ==
  [ev |-> ev, room |-> room, to |-> to, except |-> 0, data |-> data]
EventExcept(ev, room, except, data) ==
  [ev |-> ev, room |-> room, to |-> 0, except |-> except, data |-> data]

\* a catch block that logs the error and forgets the callback
FailedSilently(task, err) == [task EXCEPT !.pc = "done", !.error = err]

\* catch (error) { if (callback) callback({ success: false, error: error.message }) }
Failed(task, err) ==
  [task EXCEPT !.pc = "done", !.error = err,
               !.acks = @ + (IF task.cb THEN 1 ELSE 0), !.ackSuccess = FALSE]

\* an emit that leaves out the connection whose event is being handled (socket.to)
DeliveriesToOthers(task, events) ==
  {[socket |-> s, ev |-> e.ev, data |-> e.data] :
     s \in {x \in SocketIds \ {task.socket} : sockets[x].state = "connected"},
     e \in {y \in events : y.room # 0}}

\* io.to(room).emit reaches the connected sockets that are in the room;
\* socket.to(room).emit reaches them except the socket itself;
\* io.to(socketId).emit reaches that socket, if it is connected
Deliveries(task, events) ==
  UNION {{[socket |-> s, ev |-> e.ev, data |-> e.data] :
            s \in {x \in SocketIds : /\ sockets[x].state = "connected"
                                     /\ x # e.except
                                     /\ \/ e.room # 0 /\ e.room \in rooms[x]
                                        \/ e.to = x}} : e \in events}

\* a handler that gives up, with an error, when its connection has gone
SucceededWhileConnected(task, events) ==
  IF task.socket \in SocketIds /\ sockets[task.socket].state # "connected"
    THEN [task EXCEPT !.pc = "done", !.error = "Disconnected"]
    ELSE [task EXCEPT !.pc = "done", !.emitted = events, !.delivered = Deliveries(task, events),
                      !.acks = @ + (IF task.cb THEN 1 ELSE 0), !.ackSuccess = task.cb]

\* the emits, then: if (callback) callback({ success: true, ... })
Succeeded(task, events) ==
  [task EXCEPT !.pc = "done", !.emitted = events, !.delivered = Deliveries(task, events),
               !.acks = @ + (IF task.cb THEN 1 ELSE 0), !.ackSuccess = task.cb]

\* an intent event arrives on a connected socket; its handler starts
StartTask(t, s, fields) ==
  /\ tasks[t].pc = "idle"
  /\ \A r \in TaskIds : r < t => tasks[r].pc # "idle"
  /\ sockets[s].state = "connected"
  /\ tasks' = [tasks EXCEPT ![t] = [f \in DOMAIN IdleTask |->
                 IF f \in DOMAIN fields THEN fields[f]
                 ELSE IF f = "socket" THEN s
                 ELSE IF f = "userId" THEN sockets[s].userId
                 ELSE IdleTask[f]]]
  /\ UNCHANGED << storeVars, gatewayVars, chat >>

\* ------------------------------------------------------------ message:send
BeginSend(t, s, recipientId, content, cb) ==
  StartTask(t, s, [op |-> "send", pc |-> "goc_find", recipientId |-> recipientId,
                   content |-> content, cb |-> cb])

\* getOrCreateConversation without its first check
SelfConversationUnchecked(user1Id, user2Id) == FALSE

\* if (user1Id === user2Id) throw new ValidationError(...)
SelfConversation(user1Id, user2Id) == user1Id = user2Id

\* getOrCreateConversation: the check and prisma.conversation.findFirst
GocFind(t) ==
  LET k == tasks[t] IN
  /\ k.pc = "goc_find"
  /\ IF SelfConversation(k.userId, k.recipientId)
       THEN tasks' = [tasks EXCEPT ![t] = Failed(k, "ValidationError")]
     ELSE IF ConvsOfPair(k.userId, k.recipientId) # {}
       THEN \E c \in ConvsOfPair(k.userId, k.recipientId) :
              tasks' = [tasks EXCEPT ![t].conv = c, ![t].pc = "msg_create"]
     ELSE tasks' = [tasks EXCEPT ![t].pc = "goc_create"]
  /\ UNCHANGED << storeVars, gatewayVars, chat, pre >>

\* a nested create that adds the caller alone
NewParticipantsCallerOnly(c, user1Id, user2Id) ==
  { [conversationId |-> c, userId |-> user1Id, lastReadAt |-> 0] }

\* participants: { create: [{ userId: user1Id }, { userId: user2Id }] }
\* (lastReadAt is not written by the create: 0)
NewParticipants(c, user1Id, user2Id) ==
  { [conversationId |-> c, userId |-> user1Id, lastReadAt |-> 0],
    [conversationId |-> c, userId |-> user2Id, lastReadAt |-> 0] }

\* an id allocator that hands out the lowest id no conversation holds now
LowestFreeConvId == CHOOSE i \in 1..nextConvId : i \notin ConvIds /\ \A j \in 1..(i - 1) : j \in ConvIds

\* the id the store generates for a new conversation: one never handed out before
FreshConvId == nextConvId

\* getOrCreateConversation: prisma.conversation.create (one nested write)
GocCreate(t) ==
  LET k == tasks[t] IN
  /\ k.pc = "goc_create"
  /\ conversations' = conversations \cup {[id |-> FreshConvId, updatedAt |-> now]}
  /\ participants' = participants \cup NewParticipants(FreshConvId, k.userId, k.recipientId)
  /\ nextConvId' = nextConvId + 1
  /\ now' = now + 1
  /\ tasks' = [tasks EXCEPT ![t].conv = FreshConvId, ![t].pc = "msg_create"]
  /\ UNCHANGED << messages, reactions, nextMsgId, gatewayVars, chat, pre >>

\* the row prisma.message.create writes at time createdAt
NewMessageAt(id, c, senderId, content, createdAt) ==
  [id |-> id, conversationId |-> c, senderId |-> senderId, content |-> sanitizeString(content),
   createdAt |-> createdAt, isEdited |-> FALSE, editedAt |-> 0]

NewMessage(id, c, senderId, content) == NewMessageAt(id, c, senderId, content, now)

\* a message table whose conversationId is not checked against the conversations
ForeignKeyViolationIgnored(c) == FALSE

\* message.conversationId refers to a conversation: a create for a missing one fails
ForeignKeyViolation(c) == c \notin ConvIds

\* sendMessage: sanitizeString(content), then prisma.message.create
MsgCreate(t) ==
  LET k == tasks[t] IN
  /\ k.pc = "msg_create"
  /\ IF sanitizeThrows(k.content)
       THEN /\ tasks' = [tasks EXCEPT ![t] = Failed(k, "TypeError")]
            /\ UNCHANGED << messages, nextMsgId, now >>
     ELSE IF ForeignKeyViolation(k.conv)
       THEN /\ tasks' = [tasks EXCEPT ![t] = Failed(k, "PrismaError")]
            /\ UNCHANGED << messages, nextMsgId, now >>
     ELSE /\ messages' = messages \cup {NewMessage(nextMsgId, k.conv, k.userId, k.content)}
          /\ nextMsgId' = nextMsgId + 1
          /\ now' = now + 1
          /\ tasks' = [tasks EXCEPT ![t].msg = nextMsgId, ![t].pc = "conv_update"]
  /\ UNCHANGED << conversations, participants, reactions, nextConvId, gatewayVars, chat, pre >>

\* sendMessage: prisma.conversation.update({ data: { updatedAt: new Date() } })
ConvUpdate(t) ==
  LET k == tasks[t] IN
  /\ k.pc = "conv_update"
  /\ IF k.conv \notin ConvIds
       THEN /\ tasks' = [tasks EXCEPT ![t] = Failed(k, "PrismaError")]
            /\ UNCHANGED << conversations, now >>
     ELSE /\ conversations' = {IF c.id = k.conv THEN [c EXCEPT !.updatedAt = now] ELSE c :
                                c \in conversations}
          /\ now' = now + 1
          /\ tasks' = [tasks EXCEPT ![t].pc = "send_emit"]
  /\ UNCHANGED << participants, messages, reactions, nextConvId, nextMsgId, gatewayVars, chat, pre >>

\* a notification sent whether or not the registry has an entry for the recipient
SendEventsAlways(k) ==
  LET data == Payload(k.msg, k.conv, sanitizeString(k.content), FALSE, "") IN
  {Event("message:new", k.conv, 0, data),
   Event("conversation:update", 0, onlineUsers[k.recipientId], data)}

\* the events of a successful message:send
SendEvents(k) ==
  LET data == Payload(k.msg, k.conv, sanitizeString(k.content), FALSE, "") IN
  {Event("message:new", k.conv, 0, data)}
    \cup (IF onlineUsers[k.recipientId] # 0
            THEN {Event("conversation:update", 0, onlineUsers[k.recipientId], data)} ELSE {})

\* message:send after the service call returned: the emits and the ack
SendEmit(t) ==
  LET k == tasks[t] IN
  /\ k.pc = "send_emit"
  /\ tasks' = [tasks EXCEPT ![t] = Succeeded(k, SendEvents(k))]
  /\ UNCHANGED << storeVars, gatewayVars, chat, pre >>


\* ------------------------------------------------------------ message:edit
BeginEdit(t, s, messageId, content, cb) ==
  StartTask(t, s, [op |-> "edit", pc |-> "edit_find", messageId |-> messageId,
                   content |-> content, cb |-> cb])

\* the rule of deleteMessage (any participant) applied to editMessage
MayEditAsParticipant(message, userId) == userId \in PartUsers(message.conversationId)

\* if (message.senderId !== userId) throw new ForbiddenError(...)
MayEdit(message, userId) == message.senderId = userId

\* editMessage: prisma.message.findUnique and the two checks
EditFind(t) ==
  LET k == tasks[t] IN
  /\ k.pc = "edit_find"
  /\ IF k.messageId \notin MsgIds
       THEN tasks' = [tasks EXCEPT ![t] = Failed(k, "NotFoundError")]
     ELSE IF ~MayEdit(MsgById(k.messageId), k.userId)
       THEN tasks' = [tasks EXCEPT ![t] = Failed(k, "ForbiddenError")]
     ELSE tasks' = [tasks EXCEPT ![t].pc = "edit_update"]
  /\ UNCHANGED << storeVars, gatewayVars, chat, pre >>

\* an update that writes the content and the time and forgets the flag
EditedMessageUnflagged(m, content) ==
  [m EXCEPT !.content = sanitizeString(content), !.editedAt = now]

\* data: { content: sanitizeString(content), isEdited: true, editedAt: new Date() }
EditedMessage(m, content) ==
  [m EXCEPT !.content = sanitizeString(content), !.isEdited = TRUE, !.editedAt = now]

\* editMessage: sanitizeString(content), then prisma.message.update
EditUpdate(t) ==
  LET k == tasks[t] IN
  /\ k.pc = "edit_update"
  /\ IF sanitizeThrows(k.content)
       THEN /\ tasks' = [tasks EXCEPT ![t] = Failed(k, "TypeError")]
            /\ UNCHANGED << messages, now >>
     ELSE IF k.messageId \notin MsgIds
       THEN /\ tasks' = [tasks EXCEPT ![t] = Failed(k, "PrismaError")]
            /\ UNCHANGED << messages, now >>
     ELSE /\ messages' = {IF m.id = k.messageId THEN EditedMessage(m, k.content) ELSE m :
                           m \in messages}
          /\ now' = now + 1
          /\ tasks' = [tasks EXCEPT ![t].conv = MsgById(k.messageId).conversationId,
                                    ![t].msg = k.messageId, ![t].pc = "edit_emit"]
  /\ UNCHANGED << conversations, participants, reactions, nextConvId, nextMsgId, gatewayVars, chat, pre >>

EditEvents(k) ==
  {Event("message:edited", k.conv, 0, Payload(k.msg, k.conv, sanitizeString(k.content), TRUE, ""))}

EditEmit(t) ==
  LET k == tasks[t] IN
  /\ k.pc = "edit_emit"
  /\ tasks' = [tasks EXCEPT ![t] = Succeeded(k, EditEvents(k))]
  /\ UNCHANGED << storeVars, gatewayVars, chat, pre >>

\* ---------------------------------------------------------- message:delete
BeginDelete(t, s, messageId, cb) ==
  StartTask(t, s, [op |-> "delete", pc |-> "del_find", messageId |-> messageId, cb |-> cb])

\* a check that lets every authenticated user through
IsParticipantAnyone(c, userId) == TRUE

\* message.conversation.participants.some((p) => p.userId === userId)
IsParticipant(c, userId) == userId \in PartUsers(c)

\* deleteMessage: prisma.message.findUnique (with the participants) and the checks
DelFind(t) ==
  LET k == tasks[t] IN
  /\ k.pc = "del_find"
  /\ IF k.messageId \notin MsgIds
       THEN tasks' = [tasks EXCEPT ![t] = Failed(k, "NotFoundError")]
     ELSE IF ~IsParticipant(MsgById(k.messageId).conversationId, k.userId)
       THEN tasks' = [tasks EXCEPT ![t] = Failed(k, "ForbiddenError")]
     ELSE tasks' = [tasks EXCEPT ![t].conv = MsgById(k.messageId).conversationId,
                                 ![t].pc = "del_delete"]
  /\ UNCHANGED << storeVars, gatewayVars, chat, pre >>

\* a soft delete: the row stays, emptied
MessagesAfterDeleteTombstone(id) ==
  {IF m.id = id THEN [m EXCEPT !.content = Empty] ELSE m : m \in messages}

\* prisma.message.delete({ where: { id } }): the row is gone
MessagesAfterDelete(id) == {m \in messages : m.id # id}

\* deleteMessage: prisma.message.delete (cascades to reactions)
DelDelete(t) ==
  LET k == tasks[t] IN
  /\ k.pc = "del_delete"
  /\ IF k.messageId \notin MsgIds
       THEN /\ tasks' = [tasks EXCEPT ![t] = Failed(k, "PrismaError")]
            /\ UNCHANGED << messages, reactions >>
     ELSE /\ messages' = MessagesAfterDelete(k.messageId)
          /\ reactions' = {r \in reactions : r.messageId # k.messageId}
          /\ tasks' = [tasks EXCEPT ![t].pc = "del_emit"]
  /\ UNCHANGED << conversations, participants, nextConvId, nextMsgId, now, gatewayVars, chat, pre >>

DelEvents(k) ==
  {Event("message:deleted", k.conv, 0, Payload(k.messageId, k.conv, Empty, FALSE, ""))}

DelEmit(t) ==
  LET k == tasks[t] IN
  /\ k.pc = "del_emit"
  /\ tasks' = [tasks EXCEPT ![t] = Succeeded(k, DelEvents(k))]
  /\ UNCHANGED << storeVars, gatewayVars, chat, pre >>

\* ----------------------------------------------------------- message:react
BeginReact(t, s, messageId, emoji, cb) ==
  StartTask(t, s, [op |-> "react", pc |-> "react_find", messageId |-> messageId,
                   emoji |-> emoji, cb |-> cb])

Reaction(messageId, userId, emoji) ==
  [messageId |-> messageId, userId |-> userId, emoji |-> emoji]

\* addReaction: prisma.message.findUnique (with the participants) and the checks
ReactFind(t) ==
  LET k == tasks[t] IN
  /\ k.pc = "react_find"
  /\ IF k.messageId \notin MsgIds
       THEN tasks' = [tasks EXCEPT ![t] = Failed(k, "NotFoundError")]
     ELSE IF ~IsParticipant(MsgById(k.messageId).conversationId, k.userId)
       THEN tasks' = [tasks EXCEPT ![t] = Failed(k, "ForbiddenError")]
     ELSE tasks' = [tasks EXCEPT ![t].pc = "react_lookup"]
  /\ UNCHANGED << storeVars, gatewayVars, chat, pre >>

\* addReaction: prisma.reaction.findUnique on (messageId, userId, emoji)
ReactLookup(t) ==
  LET k == tasks[t] IN
  /\ k.pc = "react_lookup"
  /\ tasks' = [tasks EXCEPT ![t].existing = Reaction(k.messageId, k.userId, k.emoji) \in reactions,
                            ![t].pc = "react_write"]
  /\ UNCHANGED << storeVars, gatewayVars, chat, pre >>

\* a delete that takes every reaction of the user on the message
ReactionsWithoutUser(r) ==
  {x \in reactions : ~(x.messageId = r.messageId /\ x.userId = r.userId)}

\* prisma.reaction.delete({ where: { id: existingReaction.id } })
ReactionsWithout(r) == reactions \ {r}

\* a result that always reports 'added'
ToggleActionAdded(existing) == "added"

\* return { action: 'removed', ... } after the delete, { action: 'added', ... } after the create
ToggleAction(existing) == IF existing THEN "removed" ELSE "added"

\* a reaction table without the unique key
UniqueViolationIgnored(r) == FALSE

\* the compound key messageId_userId_emoji: a create of a triple that is there fails
UniqueViolation(r) == r \in reactions

\* addReaction: prisma.reaction.delete of the row found, or prisma.reaction.create
\* (the row's message must exist; the triple is unique)
ReactWrite(t) ==
  LET k == tasks[t]
      r == Reaction(k.messageId, k.userId, k.emoji) IN
  /\ k.pc = "react_write"
  /\ IF k.existing
       THEN IF r \notin reactions
              THEN /\ tasks' = [tasks EXCEPT ![t] = Failed(k, "PrismaError")]
                   /\ UNCHANGED reactions
              ELSE /\ reactions' = ReactionsWithout(r)
                   /\ tasks' = [tasks EXCEPT ![t].action = ToggleAction(k.existing),
                                             ![t].pc = "react_msg"]
     ELSE IF k.messageId \notin MsgIds \/ UniqueViolation(r)
       THEN /\ tasks' = [tasks EXCEPT ![t] = Failed(k, "PrismaError")]
            /\ UNCHANGED reactions
     ELSE /\ reactions' = reactions \cup {r}
          /\ tasks' = [tasks EXCEPT ![t].action = ToggleAction(k.existing),
                                    ![t].pc = "react_msg"]
  /\ UNCHANGED << conversations, participants, messages, nextConvId, nextMsgId, now,
                  gatewayVars, chat, pre >>

\* message:react: prisma.message.findUnique, to find the conversation id
ReactMsg(t) ==
  LET k == tasks[t] IN
  /\ k.pc = "react_msg"
  /\ tasks' = [tasks EXCEPT ![t].conv = IF k.messageId \in MsgIds
                                         THEN MsgById(k.messageId).conversationId ELSE 0,
                            ![t].pc = "react_emit"]
  /\ UNCHANGED << storeVars, gatewayVars, chat, pre >>

\* if (message) io.to(room).emit('message:reaction', ...)
ReactEvents(k) ==
  IF k.conv # 0
    THEN {Event("message:reaction", k.conv, 0, Payload(k.messageId, k.conv, Empty, FALSE, k.action))}
    ELSE {}

ReactEmit(t) ==
  LET k == tasks[t] IN
  /\ k.pc = "react_emit"
  /\ tasks' = [tasks EXCEPT ![t] = Succeeded(k, ReactEvents(k))]
  /\ UNCHANGED << storeVars, gatewayVars, chat, pre >>

\* ----------------------------------------------------- conversation:delete
BeginConvDelete(t, s, conversationId, cb) ==
  StartTask(t, s, [op |-> "convdel", pc |-> "cd_find", conversationId |-> conversationId,
                   cb |-> cb])

\* deleteConversation: prisma.conversation.findUnique (with the participants) and the checks
CdFind(t) ==
  LET k == tasks[t] IN
  /\ k.pc = "cd_find"
  /\ IF k.conversationId \notin ConvIds
       THEN tasks' = [tasks EXCEPT ![t] = Failed(k, "NotFoundError")]
     ELSE IF ~IsParticipant(k.conversationId, k.userId)
       THEN tasks' = [tasks EXCEPT ![t] = Failed(k, "ForbiddenError")]
     ELSE tasks' = [tasks EXCEPT ![t].parts = PartUsers(k.conversationId),
                                 ![t].conv = k.conversationId, ![t].pc = "cd_delete"]
  /\ UNCHANGED << storeVars, gatewayVars, chat, pre >>

\* a delete of the conversation row that leaves its participant rows behind
ParticipantsAfterDeleteKept(c) == participants

\* the participant rows that go with conversation c when it is deleted
ParticipantsAfterDelete(c) == {p \in participants : p.conversationId # c}

\* a delete that succeeds when there is no row to delete (deleteMany)
RecordToDeleteMissingIgnored(c) == FALSE

\* prisma.conversation.delete({ where: { id } }) throws when no row has the id
RecordToDeleteMissing(c) == c \notin ConvIds

\* deleteConversation: prisma.conversation.delete (cascades to messages, reactions, participants)
CdDelete(t) ==
  LET k == tasks[t] IN
  /\ k.pc = "cd_delete"
  /\ IF RecordToDeleteMissing(k.conversationId)
       THEN /\ tasks' = [tasks EXCEPT ![t] = Failed(k, "PrismaError")]
            /\ UNCHANGED << conversations, participants, messages, reactions >>
     ELSE /\ conversations' = {c \in conversations : c.id # k.conversationId}
          /\ participants' = ParticipantsAfterDelete(k.conversationId)
          /\ messages' = {m \in messages : m.conversationId # k.conversationId}
          /\ reactions' = {r \in reactions :
                             r.messageId \notin {m.id : m \in MsgsOf(k.conversationId)}}
          /\ tasks' = [tasks EXCEPT ![t].pc = "cd_emit"]
  /\ UNCHANGED << nextConvId, nextMsgId, now, gatewayVars, chat, pre >>

\* result.participantIds.forEach: emit to the participant's registered socket, if any
CdEvents(k) ==
  {Event("conversation:deleted", 0, onlineUsers[p], Payload(0, k.conversationId, Empty, FALSE, "")) :
     p \in {q \in k.parts : onlineUsers[q] # 0}}

CdEmit(t) ==
  LET k == tasks[t] IN
  /\ k.pc = "cd_emit"
  /\ k.op = "convdel"
  /\ tasks' = [tasks EXCEPT ![t] = Succeeded(k, CdEvents(k))]
  /\ UNCHANGED << storeVars, gatewayVars, chat, pre >>

\* ------------------------------------------- GET /api/conversations/:id/messages
\* an HTTP request of an authenticated user arrives; its controller starts
StartRequest(t, userId, fields) ==
  /\ tasks[t].pc = "idle"
  /\ \A r \in TaskIds : r < t => tasks[r].pc # "idle"
  /\ tasks' = [tasks EXCEPT ![t] = [f \in DOMAIN IdleTask |->
                 IF f \in DOMAIN fields THEN fields[f]
                 ELSE IF f = "userId" THEN userId
                 ELSE IdleTask[f]]]
  /\ UNCHANGED << storeVars, gatewayVars, chat >>

\* parseInt(req.query.limit) || 50
DefaultLimit == 50

BeginGetMessages(t, userId, conversationId, page, limit) ==
  StartRequest(t, userId, [op |-> "getmsgs", pc |-> "gm_find", conversationId |-> conversationId,
                           page |-> page, limit |-> limit])

\* prisma.conversationParticipant.findFirst({ where: { conversationId, userId } })
ParticipantRows(c, userId) == {p \in participants : p.conversationId = c /\ p.userId = userId}

\* getMessages: the participant lookup and its check
GmFind(t) ==
  LET k == tasks[t] IN
  /\ k.pc = "gm_find"
  /\ IF ParticipantRows(k.conversationId, k.userId) = {}
       THEN tasks' = [tasks EXCEPT ![t] = Failed(k, "ForbiddenError")]
     ELSE tasks' = [tasks EXCEPT ![t].conv = k.conversationId, ![t].pc = "gm_list"]
  /\ UNCHANGED << storeVars, gatewayVars, chat, pre >>

\* orderBy: { createdAt: 'desc' }
RECURSIVE NewestFirst(_)
NewestFirst(ms) ==
  IF ms = {} THEN << >>
  ELSE LET m == CHOOSE x \in ms : \A y \in ms : y.createdAt <= x.createdAt
       IN << m >> \o NewestFirst(ms \ {m})

\* a page that skips page * limit rows
PageOfSkippingFirst(seq, page, limit) ==
  LET skip == page * limit
      last == IF skip + limit < Len(seq) THEN skip + limit ELSE Len(seq)
  IN SubSeq(seq, skip + 1, last)

\* skip: (page - 1) * limit, take: limit
PageOf(seq, page, limit) ==
  LET skip == (page - 1) * limit
      last == IF skip + limit < Len(seq) THEN skip + limit ELSE Len(seq)
  IN SubSeq(seq, skip + 1, last)

\* messages.reverse()
Reverse(seq) == [i \in 1..Len(seq) |-> seq[Len(seq) + 1 - i]]

\* getMessages: prisma.message.findMany of the page, newest first; when it
\* returns the handler reads the clock (new Date()) and issues the update
GmList(t) ==
  LET k == tasks[t] IN
  /\ k.pc = "gm_list"
  /\ tasks' = [tasks EXCEPT ![t].result = PageOf(NewestFirst(MsgsOf(k.conversationId)),
                                                 k.page, k.limit),
                            ![t].stamp = now,
                            ![t].pc = "gm_touch"]
  /\ now' = now + 1
  /\ UNCHANGED << conversations, participants, messages, reactions, nextConvId, nextMsgId,
                  gatewayVars, chat, pre >>

\* data: { lastReadAt: <the time read when the update was issued> } on the participant row found
Touched(c, userId, at) ==
  {IF p.conversationId = c /\ p.userId = userId THEN [p EXCEPT !.lastReadAt = at] ELSE p :
     p \in participants}

\* getMessages: prisma.conversationParticipant.update, then return messages.reverse()
GmTouch(t) ==
  LET k == tasks[t] IN
  /\ k.pc = "gm_touch"
  /\ IF ParticipantRows(k.conversationId, k.userId) = {}
       THEN /\ tasks' = [tasks EXCEPT ![t] = Failed(k, "PrismaError")]
            /\ UNCHANGED << participants, now >>
     ELSE /\ participants' = Touched(k.conversationId, k.userId, k.stamp)
          /\ UNCHANGED now
          /\ tasks' = [tasks EXCEPT ![t] = Succeeded([k EXCEPT !.result = Reverse(k.result)], {})]
  /\ UNCHANGED << conversations, messages, reactions, nextConvId, nextMsgId, gatewayVars, chat, pre >>

\* ---------------------------------------------- POST /api/conversations/:id/read
BeginMarkAsRead(t, userId, conversationId) ==
  StartRequest(t, userId, [op |-> "markread", pc |-> "mr_find", conversationId |-> conversationId])

\* markAsRead: the participant lookup and its check; when it passes the
\* handler reads the clock (new Date()) and issues the update
MrFind(t) ==
  LET k == tasks[t] IN
  /\ k.pc = "mr_find"
  /\ IF ParticipantRows(k.conversationId, k.userId) = {}
       THEN /\ tasks' = [tasks EXCEPT ![t] = Failed(k, "ForbiddenError")]
            /\ UNCHANGED now
     ELSE /\ tasks' = [tasks EXCEPT ![t].conv = k.conversationId, ![t].stamp = now,
                                    ![t].pc = "mr_touch"]
          /\ now' = now + 1
  /\ UNCHANGED << conversations, participants, messages, reactions, nextConvId, nextMsgId,
                  gatewayVars, chat, pre >>

\* markAsRead: prisma.conversationParticipant.update
MrTouch(t) ==
  LET k == tasks[t] IN
  /\ k.pc = "mr_touch"
  /\ IF ParticipantRows(k.conversationId, k.userId) = {}
       THEN /\ tasks' = [tasks EXCEPT ![t] = Failed(k, "PrismaError")]
            /\ UNCHANGED << participants, now >>
     ELSE /\ participants' = Touched(k.conversationId, k.userId, k.stamp)
          /\ UNCHANGED now
          /\ tasks' = [tasks EXCEPT ![t] = Succeeded(k, {})]
  /\ UNCHANGED << conversations, messages, reactions, nextConvId, nextMsgId, gatewayVars, chat, pre >>

\* ------------------------------------------------ DELETE /api/conversations/:id
BeginDeleteConversation(t, userId, conversationId) ==
  StartRequest(t, userId, [op |-> "rest_convdel", pc |-> "cd_find",
                           conversationId |-> conversationId])

\* the controller after messageService.deleteConversation returned: res.status(200).json(...)
CdRespond(t) ==
  LET k == tasks[t] IN
  /\ k.pc = "cd_emit"
  /\ k.op = "rest_convdel"
  /\ tasks' = [tasks EXCEPT ![t] = Succeeded(k, {})]
  /\ UNCHANGED << storeVars, gatewayVars, chat, pre >>

\* ------------------------------------------------- typing:start, typing:stop
TypingEvents == {"typing:start", "typing:stop"}

\* a relay that forwards the user id found in the client's payload
TypingPayloadFromClient(userId, data) ==
  [userId |-> data.userId, conversationId |-> data.conversationId]

\* { userId, conversationId: data.conversationId }: userId is socket.data.userId
TypingPayload(userId, data) ==
  [userId |-> userId, conversationId |-> data.conversationId]

\* socket.on('typing:start' | 'typing:stop'): one synchronous relay, no callback
Typing(t, s, ev, data) ==
  LET events == {EventExcept(ev, data.conversationId, s, TypingPayload(sockets[s].userId, data))}
      k == [IdleTask EXCEPT !.op = ev, !.socket = s, !.userId = sockets[s].userId,
                            !.conversationId = data.conversationId, !.claimed = data.userId]
  IN
  /\ tasks[t].pc = "idle"
  /\ \A r \in TaskIds : r < t => tasks[r].pc # "idle"
  /\ sockets[s].state = "connected"
  /\ tasks' = [tasks EXCEPT ![t] = [k EXCEPT !.pc = "done", !.emitted = events,
                                              !.delivered = Deliveries(k, events)]]
  /\ UNCHANGED << storeVars, gatewayVars, chat, pre >>

\* ------------------------------------------------------ GET /api/conversations
BeginGetConversations(t, userId) ==
  StartRequest(t, userId, [op |-> "listconvs", pc |-> "guc_list"])

\* orderBy: { updatedAt: 'desc' }
RECURSIVE LatestFirst(_)
LatestFirst(cs) ==
  IF cs = {} THEN << >>
  ELSE LET c == CHOOSE x \in cs : \A y \in cs : y.updatedAt <= x.updatedAt
       IN << c >> \o LatestFirst(cs \ {c})

\* the transformed row: other participant, messages[0] || null (0), own lastReadAt
ConversationView(c, userId) ==
  LET others == {p \in participants : p.conversationId = c.id /\ p.userId # userId}
      own == {p \in participants : p.conversationId = c.id /\ p.userId = userId}
      newest == NewestFirst(MsgsOf(c.id))
  IN [id |-> c.id,
      otherUser |-> IF others = {} THEN "" ELSE (CHOOSE p \in others : TRUE).userId,
      lastMessage |-> IF newest = << >> THEN 0 ELSE newest[1].id,
      lastReadAt |-> IF own = {} THEN 0 ELSE (CHOOSE p \in own : TRUE).lastReadAt,
      updatedAt |-> c.updatedAt]

\* getUserConversations: prisma.conversation.findMany and the transformation
GucList(t) ==
  LET k == tasks[t]
      mine == LatestFirst({c \in conversations : k.userId \in PartUsers(c.id)})
  IN
  /\ k.pc = "guc_list"
  /\ tasks' = [tasks EXCEPT ![t] =
       Succeeded([k EXCEPT !.result = [i \in 1..Len(mine) |-> ConversationView(mine[i], k.userId)]],
                 {})]
  /\ UNCHANGED << storeVars, gatewayVars, chat, pre >>

\* ------------------------------------------------------- the client's chat store
\* an addMessage that appends without looking for the id
addMessageUnchecked(state, message) ==
  [state EXCEPT !.conversations =
     [i \in 1..Len(state.conversations) |->
        LET c == state.conversations[i] IN
        IF c.id = message.conversationId
          THEN [c EXCEPT !.messages = Append(@, message), !.lastMessageAt = message.createdAt]
          ELSE c]]

\* addMessage: conversations.map; a message whose id is there is not added again
addMessage(state, message) ==
  [state EXCEPT !.conversations =
     [i \in 1..Len(state.conversations) |->
        LET c == state.conversations[i] IN
        IF c.id = message.conversationId
          THEN IF \E j \in 1..Len(c.messages) : c.messages[j].id = message.id
                 THEN c
                 ELSE [c EXCEPT !.messages = Append(@, message),
                                !.lastMessageAt = message.createdAt]
          ELSE c]]

\* updateMessage: messages.map(m => m.id === message.id ? message : m)
updateMessage(state, message) ==
  [state EXCEPT !.conversations =
     [i \in 1..Len(state.conversations) |->
        LET c == state.conversations[i] IN
        IF c.id = message.conversationId
          THEN [c EXCEPT !.messages =
                  [j \in 1..Len(c.messages) |->
                     IF c.messages[j].id = message.id THEN message ELSE c.messages[j]]]
          ELSE c]]

\* removeMessage: messages.filter(m => m.id !== messageId)
removeMessage(state, messageId, conversationId) ==
  LET other(m) == m.id # messageId IN
  [state EXCEPT !.conversations =
     [i \in 1..Len(state.conversations) |->
        LET c == state.conversations[i] IN
        IF c.id = conversationId
          THEN [c EXCEPT !.messages = SelectSeq(c.messages, other)]
          ELSE c]]

\* removeConversation: conversations.filter(c => c.id !== conversationId)
removeConversation(state, conversationId) ==
  LET other(c) == c.id # conversationId IN
  [conversations |-> SelectSeq(state.conversations, other),
   activeConversationId |-> IF state.activeConversationId = conversationId
                              THEN 0 ELSE state.activeConversationId]

\* setConversations: set({ conversations })
setConversations(state, list) == [state EXCEPT !.conversations = list]

\* setActiveConversation: set({ activeConversationId: id })
setActiveConversation(state, id) == [state EXCEPT !.activeConversationId = id]

\* ------------------------------------------------------------ the handlers
SendStep(t) == GocFind(t) \/ GocCreate(t) \/ MsgCreate(t) \/ ConvUpdate(t) \/ SendEmit(t)

EditStep(t) == EditFind(t) \/ EditUpdate(t) \/ EditEmit(t)

Step(t) ==
  \/ GocFind(t) \/ GocCreate(t) \/ MsgCreate(t) \/ ConvUpdate(t) \/ SendEmit(t)
  \/ EditFind(t) \/ EditUpdate(t) \/ EditEmit(t)
  \/ DelFind(t) \/ DelDelete(t) \/ DelEmit(t)
  \/ ReactFind(t) \/ ReactLookup(t) \/ ReactWrite(t) \/ ReactMsg(t) \/ ReactEmit(t)
  \/ CdFind(t) \/ CdDelete(t) \/ CdEmit(t)

InFlight(t) == tasks[t].pc \notin {"idle", "done"}

NoneInFlight == \A t \in TaskIds : ~InFlight(t)

\* the user whose token the s-th connection carries, where a specification fixes it
UserSeq == << "u1", "u2", "u3" >>
UserOfSocket(s) == UserSeq[((s - 1) % Len(UserSeq)) + 1]
UserSockets == 1..Len(UserSeq)

\* the ids the store has handed out so far (of rows that exist or were deleted)
KnownMsgIds == 1..(nextMsgId - 1)
KnownConvIds == 1..(nextConvId - 1)
NoneBegun == \A t \in TaskIds : tasks[t].pc = "idle"

\* --------------------------------------------------------------------------
\* Spec: handlers run one at a time (an event arrives when no handler is
\* suspended), from the empty store.
SeqBegin(t, s) ==
  \/ \E r \in Users : BeginSend(t, s, r, Hi, TRUE)
  \/ \E m \in KnownMsgIds : BeginEdit(t, s, m, Hello, TRUE)
  \/ \E m \in KnownMsgIds : BeginDelete(t, s, m, TRUE)
  \/ \E m \in KnownMsgIds, e \in Emojis : BeginReact(t, s, m, e, TRUE)
  \/ \E c \in KnownConvIds : BeginConvDelete(t, s, c, TRUE)

Next ==
  \/ \E s \in UserSockets : NoneBegun /\ Connect(s, UserOfSocket(s)) /\ UNCHANGED wire
  \/ \E t \in TaskIds, s \in UserSockets :
       NoneInFlight /\ SeqBegin(t, s) /\ pre' = [pre EXCEPT ![t] = store]
  \/ \E t \in TaskIds : Step(t)

Spec == Init /\ [][Next]_vars


\* --------------------------------------------------------------------------
\* SpecConc: handlers overlap.  Every user has one connection; the store is
\* empty, or holds what one message:send of "Hi" from u1 to u2 leaves there
\* (Established, a state Spec reaches).
EstablishedStore ==
  /\ conversations = {[id |-> 1, updatedAt |-> 3]}
  /\ participants = NewParticipants(1, "u1", "u2")
  /\ messages = {[id |-> 1, conversationId |-> 1, senderId |-> "u1", content |-> Hi,
                  createdAt |-> 2, isEdited |-> FALSE, editedAt |-> 0]}
  /\ reactions = {}
  /\ nextConvId = 2
  /\ nextMsgId = 2
  /\ now = 4

AllConnected ==
  /\ sockets = [s \in SocketIds |-> IF s \in UserSockets
                                     THEN [state |-> "connected", userId |-> UserOfSocket(s)]
                                     ELSE [state |-> "unused", userId |-> ""]]
  /\ rooms = [s \in SocketIds |-> {}]
  /\ onlineUsers = [u \in Users |-> CHOOSE s \in UserSockets : UserOfSocket(s) = u]
  /\ wire = [s \in SocketIds |-> NoWire]
  /\ chat = NoChat

EmptyStore ==
  /\ conversations = {}
  /\ participants = {}
  /\ messages = {}
  /\ reactions = {}
  /\ nextConvId = 1
  /\ nextMsgId = 1
  /\ now = 1

InitConc ==
  /\ EmptyStore \/ EstablishedStore
  /\ AllConnected
  /\ tasks = [t \in TaskIds |-> IdleTask]
  /\ pre = [t \in TaskIds |-> NoSnapshot]

ConcBegin(t, s) ==
  \/ \E r \in {"u1", "u2"} : BeginSend(t, s, r, Hi, TRUE)
  \/ \E m \in KnownMsgIds : BeginEdit(t, s, m, Hello, TRUE)
  \/ \E m \in KnownMsgIds : BeginDelete(t, s, m, TRUE)
  \/ \E m \in KnownMsgIds, e \in Emojis : BeginReact(t, s, m, e, TRUE)
  \/ \E c \in KnownConvIds : BeginConvDelete(t, s, c, TRUE)

NextConc ==
  \/ \E t \in 1..MaxConcurrent, s \in {1, 2} : ConcBegin(t, s) /\ UNCHANGED pre
  \/ \E t \in 1..MaxConcurrent : Step(t)

SpecConc == InitConc /\ [][NextConc]_vars

\* Spec reaches the established store with every user connected
Established == EstablishedStore /\ sockets = [s \in SocketIds |-> IF s \in UserSockets
                                     THEN [state |-> "connected", userId |-> UserOfSocket(s)]
                                     ELSE [state |-> "unused", userId |-> ""]]

\* --------------------------------------------------------------------------
\* SpecInput: what a client can put in the payload of message:send and
\* message:edit.  Handlers run one at a time, from the empty store.
Contents == {Hi, Padded, Empty, Blank, TooLong, Undefined}

InputBegin(t, s) ==
  \/ \E c \in Contents : BeginSend(t, s, UserOfSocket(3 - s), c, TRUE)
  \/ \E m \in KnownMsgIds, c \in Contents : BeginEdit(t, s, m, c, TRUE)

NextInput ==
  \/ \E s \in {1, 2} : NoneBegun /\ Connect(s, UserOfSocket(s)) /\ UNCHANGED wire
  \/ \E t \in TaskIds, s \in {1, 2} :
       NoneInFlight /\ InputBegin(t, s) /\ pre' = [pre EXCEPT ![t] = store]
  \/ \E t \in TaskIds : SendStep(t) \/ EditStep(t)

SpecInput == Init /\ [][NextInput]_vars

\* --------------------------------------------------------------------------
\* SpecPresence: connections come and go, join and leave a room, and one
\* message:send is handled meanwhile.
PresenceUsers == {"u1", "u2"}

NextPresence ==
  \/ \E s \in SocketIds, u \in PresenceUsers : Connect(s, u) /\ UNCHANGED wire
  \/ \E s \in SocketIds : Disconnect(s) /\ UNCHANGED wire
  \/ \E s \in SocketIds : Join(s, 1)
  \/ \E s \in SocketIds : Leave(s, 1)
  \/ \E s \in SocketIds, r \in PresenceUsers, cb \in BOOLEAN :
       BeginSend(1, s, r, Hi, cb) /\ UNCHANGED pre
  \/ SendStep(1)

SpecPresence == Init /\ [][NextPresence]_vars

\* --------------------------------------------------------------------------
\* SpecReact: message:react events handled one at a time on the message of the
\* established conversation, by its two participants and by a third user, with
\* two emojis; the message starts with any of the reactions its participants
\* can have left on it.
ReactEmojis == {"thumbsup", "heart"}

ReactStep(t) == ReactFind(t) \/ ReactLookup(t) \/ ReactWrite(t) \/ ReactMsg(t) \/ ReactEmit(t)

InitReact ==
  /\ conversations = {[id |-> 1, updatedAt |-> 3]}
  /\ participants = NewParticipants(1, "u1", "u2")
  /\ messages = {NewMessageAt(1, 1, "u1", Hi, 2)}
  /\ reactions \in SUBSET {Reaction(1, u, e) : u \in {"u1", "u2"}, e \in ReactEmojis}
  /\ nextConvId = 2
  /\ nextMsgId = 2
  /\ now = 4
  /\ AllConnected
  /\ tasks = [t \in TaskIds |-> IdleTask]
  /\ pre = [t \in TaskIds |-> NoSnapshot]

NextReact ==
  \/ \E t \in TaskIds, s \in UserSockets, e \in ReactEmojis :
       NoneInFlight /\ BeginReact(t, s, 1, e, TRUE) /\ pre' = [pre EXCEPT ![t] = store]
  \/ \E t \in TaskIds : ReactStep(t)

SpecReact == InitReact /\ [][NextReact]_vars

\* --------------------------------------------------------------------------
\* SpecAccess: the operations on an established conversation (of u1 and u2,
\* with one message and one reaction), issued one at a time by its participants
\* and by u3, who is not one: message:delete, message:react, conversation:delete
\* on the socket, getMessages and markAsRead over HTTP.
InitAccess ==
  /\ conversations = {[id |-> 1, updatedAt |-> 3]}
  /\ participants = NewParticipants(1, "u1", "u2")
  /\ messages = {NewMessageAt(1, 1, "u1", Hi, 2)}
  /\ reactions = {Reaction(1, "u2", "thumbsup")}
  /\ nextConvId = 2
  /\ nextMsgId = 2
  /\ now = 4
  /\ AllConnected
  /\ tasks = [t \in TaskIds |-> IdleTask]
  /\ pre = [t \in TaskIds |-> NoSnapshot]

AccessBegin(t, s) ==
  \/ BeginDelete(t, s, 1, TRUE)
  \/ BeginReact(t, s, 1, "thumbsup", TRUE)
  \/ BeginConvDelete(t, s, 1, TRUE)
  \/ BeginGetMessages(t, UserOfSocket(s), 1, 1, DefaultLimit)
  \/ BeginMarkAsRead(t, UserOfSocket(s), 1)

AccessStep(t) ==
  \/ DelFind(t) \/ DelDelete(t) \/ DelEmit(t)
  \/ ReactFind(t) \/ ReactLookup(t) \/ ReactWrite(t) \/ ReactMsg(t) \/ ReactEmit(t)
  \/ CdFind(t) \/ CdDelete(t) \/ CdEmit(t)
  \/ GmFind(t) \/ GmList(t) \/ GmTouch(t)
  \/ MrFind(t) \/ MrTouch(t)

NextAccess ==
  \/ \E t \in TaskIds, s \in UserSockets :
       NoneInFlight /\ AccessBegin(t, s) /\ pre' = [pre EXCEPT ![t] = store]
  \/ \E t \in TaskIds : AccessStep(t)

SpecAccess == InitAccess /\ [][NextAccess]_vars

\* --------------------------------------------------------------------------
\* SpecNotify: who receives what.  Over the established conversation of u1 and
\* u2, connections of the two come and go, join and leave its room, and one
\* intent event is handled meanwhile.
InitNotify ==
  /\ EstablishedStore
  /\ sockets = [s \in SocketIds |-> [state |-> "unused", userId |-> ""]]
  /\ rooms = [s \in SocketIds |-> {}]
  /\ onlineUsers = [u \in Users |-> 0]
  /\ wire = [s \in SocketIds |-> NoWire]
  /\ chat = NoChat
  /\ tasks = [t \in TaskIds |-> IdleTask]
  /\ pre = [t \in TaskIds |-> NoSnapshot]

NotifyBegin(s) ==
  \/ \E r \in {"u2", "u3"} : BeginSend(1, s, r, Hi, TRUE)
  \/ BeginEdit(1, s, 1, Hello, TRUE)
  \/ BeginDelete(1, s, 1, TRUE)
  \/ BeginReact(1, s, 1, "thumbsup", TRUE)
  \/ BeginConvDelete(1, s, 1, TRUE)

NextNotify ==
  \/ \E s \in SocketIds, u \in PresenceUsers : Connect(s, u) /\ UNCHANGED wire
  \/ \E s \in SocketIds : Disconnect(s) /\ UNCHANGED wire
  \/ \E s \in SocketIds : Join(s, 1)
  \/ \E s \in SocketIds : Leave(s, 1)
  \/ \E s \in SocketIds : NotifyBegin(s) /\ UNCHANGED pre
  \/ Step(1)

SpecNotify == InitNotify /\ [][NextNotify]_vars

\* --------------------------------------------------------------------------
\* SpecAuth: handshakes with every kind of token, closes, joins and leaves;
\* the token of each handshake and the presence broadcasts are recorded.
NextAuth ==
  \/ \E s \in SocketIds, token \in Tokens : Handshake(s, token)
  \/ \E s \in SocketIds : Close(s)
  \/ \E s \in SocketIds : Join(s, 1)
  \/ \E s \in SocketIds : Leave(s, 1)

SpecAuth == Init /\ [][NextAuth]_vars

\* --------------------------------------------------------------------------
\* SpecRead: getMessages and markAsRead requests of the two participants of
\* the established conversation, overlapping.
ReadStep(t) == GmFind(t) \/ GmList(t) \/ GmTouch(t) \/ MrFind(t) \/ MrTouch(t)

NextRead ==
  \/ \E t \in TaskIds, u \in PresenceUsers :
       /\ \/ BeginGetMessages(t, u, 1, 1, DefaultLimit)
          \/ BeginMarkAsRead(t, u, 1)
       /\ UNCHANGED pre
  \/ \E t \in TaskIds : ReadStep(t)

InitRead ==
  /\ EstablishedStore
  /\ AllConnected
  /\ tasks = [t \in TaskIds |-> IdleTask]
  /\ pre = [t \in TaskIds |-> NoSnapshot]

SpecRead == InitRead /\ [][NextRead]_vars

\* --------------------------------------------------------------------------
\* SpecPage: u1 reads pages of its conversations between sends, one operation
\* at a time; the store starts empty or established.
Pages == 1..3
Limits == {1, 2, DefaultLimit}

PageBegin(t) ==
  \/ \E r \in {"u2", "u3"} : BeginSend(t, 1, r, Hi, TRUE)
  \/ BeginSend(t, 2, "u1", Hello, TRUE)
  \/ \E c \in KnownConvIds, page \in Pages, limit \in Limits :
       BeginGetMessages(t, "u1", c, page, limit)

NextPage ==
  \/ \E t \in TaskIds : NoneInFlight /\ PageBegin(t) /\ pre' = [pre EXCEPT ![t] = store]
  \/ \E t \in TaskIds : SendStep(t) \/ GmFind(t) \/ GmList(t) \/ GmTouch(t)

SpecPage == InitConc /\ [][NextPage]_vars

\* --------------------------------------------------------------------------
\* SpecList: u1 sends to u2 and to u3, with or without a content field, and
\* lists its conversations; the handlers overlap.
ListBegin(t) ==
  \/ \E r \in {"u2", "u3"}, c \in {Hi, Undefined} : BeginSend(t, 1, r, c, TRUE)
  \/ BeginGetConversations(t, "u1")

NextList ==
  \/ \E t \in TaskIds : ListBegin(t) /\ UNCHANGED pre
  \/ \E t \in TaskIds : SendStep(t) \/ GucList(t)

SpecList == InitConc /\ [][NextList]_vars

\* --------------------------------------------------------------------------
\* SpecTyping: connections open, join and leave the room of conversation 1 and
\* close; one of them sends a typing event for conversation 1 or for an id no
\* conversation has, with or without a userId of its own choosing.
TypingData == [conversationId : {1, 2}, userId : {"", "u1", "u2"}]

NextTyping ==
  \/ \E s \in SocketIds, u \in PresenceUsers : Connect(s, u) /\ UNCHANGED wire
  \/ \E s \in SocketIds : Disconnect(s) /\ UNCHANGED wire
  \/ \E s \in SocketIds : Join(s, 1)
  \/ \E s \in SocketIds : Leave(s, 1)
  \/ \E s \in SocketIds, ev \in TypingEvents, data \in TypingData : Typing(1, s, ev, data)

SpecTyping == InitNotify /\ [][NextTyping]_vars

\* --------------------------------------------------------------------------
\* SpecDelete: conversation 1 of u1 and u2 holds a message of each, both with a
\* reaction; u1, u2 and u3 delete, edit, react and read, one at a time.
InitDelete ==
  /\ conversations = {[id |-> 1, updatedAt |-> 4]}
  /\ participants = NewParticipants(1, "u1", "u2")
  /\ messages = {NewMessageAt(1, 1, "u1", Hi, 2), NewMessageAt(2, 1, "u2", Hi, 3)}
  /\ reactions = {Reaction(1, "u2", "thumbsup"), Reaction(2, "u1", "thumbsup")}
  /\ nextConvId = 2
  /\ nextMsgId = 3
  /\ now = 5
  /\ AllConnected
  /\ tasks = [t \in TaskIds |-> IdleTask]
  /\ pre = [t \in TaskIds |-> NoSnapshot]

DeleteBegin(t, s) ==
  \/ \E m \in {1, 2} : BeginDelete(t, s, m, TRUE)
  \/ BeginEdit(t, s, 1, Hello, TRUE)
  \/ BeginReact(t, s, 1, "thumbsup", TRUE)
  \/ BeginGetMessages(t, UserOfSocket(s), 1, 1, DefaultLimit)

DeleteStep(t) ==
  \/ DelFind(t) \/ DelDelete(t) \/ DelEmit(t)
  \/ EditFind(t) \/ EditUpdate(t) \/ EditEmit(t)
  \/ ReactFind(t) \/ ReactLookup(t) \/ ReactWrite(t) \/ ReactMsg(t) \/ ReactEmit(t)
  \/ GmFind(t) \/ GmList(t) \/ GmTouch(t)

NextDelete ==
  \/ \E t \in TaskIds, s \in UserSockets :
       NoneInFlight /\ DeleteBegin(t, s) /\ pre' = [pre EXCEPT ![t] = store]
  \/ \E t \in TaskIds : DeleteStep(t)

SpecDelete == InitDelete /\ [][NextDelete]_vars

\* --------------------------------------------------------------------------
\* SpecToggle: u1 and u2 react to message 1 with one emoji, from any number of
\* events at once.
NextToggle ==
  \/ \E t \in TaskIds, s \in {1, 2} : BeginReact(t, s, 1, "thumbsup", TRUE) /\ UNCHANGED pre
  \/ \E t \in TaskIds :
       ReactFind(t) \/ ReactLookup(t) \/ ReactWrite(t) \/ ReactMsg(t) \/ ReactEmit(t)

SpecToggle == InitAccess /\ [][NextToggle]_vars

\* --------------------------------------------------------------------------
\* SpecIntegrity: u1 and u2 send, delete messages, react and delete
\* conversations, their handlers overlapping.
IntegrityBegin(t, s) ==
  \/ BeginSend(t, s, UserOfSocket(3 - s), Hi, TRUE)
  \/ \E m \in KnownMsgIds : BeginDelete(t, s, m, TRUE)
  \/ \E m \in KnownMsgIds : BeginReact(t, s, m, "thumbsup", TRUE)
  \/ \E c \in KnownConvIds : BeginConvDelete(t, s, c, TRUE)

IntegrityStep(t) ==
  \/ GocFind(t) \/ GocCreate(t) \/ MsgCreate(t) \/ ConvUpdate(t) \/ SendEmit(t)
  \/ DelFind(t) \/ DelDelete(t) \/ DelEmit(t)
  \/ ReactFind(t) \/ ReactLookup(t) \/ ReactWrite(t) \/ ReactMsg(t) \/ ReactEmit(t)
  \/ CdFind(t) \/ CdDelete(t) \/ CdEmit(t)

NextIntegrity ==
  \/ \E t \in 1..MaxConcurrent, s \in {1, 2} : IntegrityBegin(t, s) /\ UNCHANGED pre
  \/ \E t \in 1..MaxConcurrent : IntegrityStep(t)

SpecIntegrity == InitConc /\ [][NextIntegrity]_vars

\* --------------------------------------------------------------------------
\* SpecRestDelete: with u1, u2 and u3 connected, conversation 1 is deleted by
\* a conversation:delete event or by a DELETE request, one at a time.
RestDeleteBegin(t, s) ==
  \/ BeginConvDelete(t, s, 1, TRUE)
  \/ BeginDeleteConversation(t, UserOfSocket(s), 1)

NextRestDelete ==
  \/ \E t \in TaskIds, s \in UserSockets :
       NoneInFlight /\ RestDeleteBegin(t, s) /\ UNCHANGED pre
  \/ \E t \in TaskIds : CdFind(t) \/ CdDelete(t) \/ CdEmit(t) \/ CdRespond(t)

SpecRestDelete == InitAccess /\ [][NextRestDelete]_vars

\* --------------------------------------------------------------------------
\* SpecRooms: u1, u2 and u3 are connected; any of them joins and leaves the
\* room of conversation 1 of u1 and u2, and a participant sends, edits, deletes,
\* reacts or types in it.
RoomsBegin(s) ==
  \/ BeginSend(1, s, UserOfSocket(3 - s), Hi, TRUE)
  \/ BeginEdit(1, s, 1, Hello, TRUE)
  \/ BeginDelete(1, s, 1, TRUE)
  \/ BeginReact(1, s, 1, "thumbsup", TRUE)

RoomsStep(t) ==
  \/ GocFind(t) \/ MsgCreate(t) \/ ConvUpdate(t) \/ SendEmit(t)
  \/ EditFind(t) \/ EditUpdate(t) \/ EditEmit(t)
  \/ DelFind(t) \/ DelDelete(t) \/ DelEmit(t)
  \/ ReactFind(t) \/ ReactLookup(t) \/ ReactWrite(t) \/ ReactMsg(t) \/ ReactEmit(t)

NextRooms ==
  \/ \E s \in SocketIds : Join(s, 1)
  \/ \E s \in SocketIds : Leave(s, 1)
  \/ \E s \in {1, 2} : RoomsBegin(s) /\ UNCHANGED pre
  \/ \E s \in {1, 2}, ev \in TypingEvents :
       Typing(1, s, ev, [conversationId |-> 1, userId |-> ""])
  \/ RoomsStep(1)

SpecRooms == InitAccess /\ [][NextRooms]_vars

\* --------------------------------------------------------------------------
\* SpecBothDelete: u1, u2 and u3, all connected, send conversation:delete for
\* conversation 1; the handlers overlap.
NextBothDelete ==
  \/ \E t \in TaskIds, s \in UserSockets : BeginConvDelete(t, s, 1, TRUE) /\ UNCHANGED pre
  \/ \E t \in TaskIds : CdFind(t) \/ CdDelete(t) \/ CdEmit(t)

SpecBothDelete == InitAccess /\ [][NextBothDelete]_vars

\* --------------------------------------------------------------------------
\* SpecChat: the client's store, empty or loaded by setConversations with
\* conversations that hold each message id once, takes addMessage,
\* updateMessage, removeMessage, removeConversation and setActiveConversation
\* calls with any message and any id, also ids of conversations and messages
\* it does not hold.
MaxChatIds == 2
ChatMsgIds == 1..MaxChatIds
ChatConvIds == 1..3
ChatMessages ==
  [id : ChatMsgIds, conversationId : ChatConvIds, content : {Hi, Hello}, createdAt : {5}]

InitChat ==
  /\ EmptyStore
  /\ AllConnected
  /\ tasks = [t \in TaskIds |-> IdleTask]
  /\ pre = [t \in TaskIds |-> NoSnapshot]

\* lists a server answers GET /conversations with: no id twice in a conversation
ChatLoads ==
  { << [id |-> 1, messages |-> << >>, lastMessageAt |-> 0],
       [id |-> 2, lastMessageAt |-> 2,
        messages |-> << [id |-> 1, conversationId |-> 2, content |-> Hi, createdAt |-> 2] >>] >>,
    << [id |-> 3, lastMessageAt |-> 3,
        messages |-> << [id |-> 2, conversationId |-> 3, content |-> Hi, createdAt |-> 2],
                        [id |-> 1, conversationId |-> 3, content |-> Hello, createdAt |-> 3] >>] >> }

NextChat ==
  /\ \/ \E loaded \in ChatLoads : chat' = setConversations(chat, loaded)
     \/ \E message \in ChatMessages :
          /\ \A i \in 1..Len(chat.conversations) :
               Len(chat.conversations[i].messages) <= MaxChatIds
          /\ chat' = addMessage(chat, message)
     \/ \E message \in ChatMessages : chat' = updateMessage(chat, message)
     \/ \E m \in ChatMsgIds, c \in ChatConvIds : chat' = removeMessage(chat, m, c)
     \/ \E c \in ChatConvIds : chat' = removeConversation(chat, c)
     \/ \E c \in ChatConvIds : chat' = setActiveConversation(chat, c)
  /\ UNCHANGED << storeVars, gatewayVars, tasks, pre >>

SpecChat == InitChat /\ [][NextChat]_vars

\* ==========================================================================
\* Properties
\* ==========================================================================
\* task t is the handler that started last
Latest(t) == \A r \in TaskIds : r > t => tasks[r].pc = "idle"
IsDone(t) == tasks[t].pc = "done"
MessagesBefore(t) == pre[t][3]

\* C1: two concurrent first message:send between A and B never leave more than
\* one conversation whose participants are A and B.
C1_OneConversationPerPair ==
  \A a, b \in Users : a # b => Cardinality(ConvsOfPair(a, b)) <= 1

\* C2: getOrCreateConversation called twice in a row for the same pair of
\* distinct users, in either order of the arguments, returns the same
\* conversation id, and the pair then has one conversation.
SamePair(k1, k2) == {k1.userId, k1.recipientId} = {k2.userId, k2.recipientId}

C2_SecondCallReturnsSameConversation ==
  \A t \in TaskIds :
    (/\ t + 1 \in TaskIds
     /\ tasks[t].op = "send" /\ tasks[t + 1].op = "send"
     /\ tasks[t].userId # tasks[t].recipientId
     /\ SamePair(tasks[t], tasks[t + 1])
     /\ tasks[t + 1].conv # 0)
    => /\ tasks[t].conv = tasks[t + 1].conv
       /\ tasks[t + 1].pc = "msg_create" =>
            Cardinality(ConvsOfPair(tasks[t].userId, tasks[t].recipientId)) = 1

C2_Witness ==
  \E t \in TaskIds :
    /\ t + 1 \in TaskIds
    /\ tasks[t].op = "send" /\ tasks[t + 1].op = "send"
    /\ tasks[t].userId = tasks[t + 1].recipientId
    /\ tasks[t].recipientId = tasks[t + 1].userId
    /\ tasks[t].userId # tasks[t].recipientId
    /\ tasks[t + 1].pc = "msg_create"
    /\ tasks[t].conv = tasks[t + 1].conv

\* C3: message:send to oneself fails with ValidationError at the check of
\* getOrCreateConversation: nothing is created, nothing is emitted, the ack is a failure.
C3_SelfSendRejected ==
  \A t \in TaskIds :
    (tasks[t].op = "send" /\ tasks[t].recipientId = tasks[t].userId)
    => /\ tasks[t].pc \in {"goc_find", "done"}
       /\ tasks[t].conv = 0 /\ tasks[t].msg = 0
       /\ IsDone(t) => /\ tasks[t].error = "ValidationError"
                       /\ tasks[t].emitted = {}
                       /\ tasks[t].acks = 1 /\ ~tasks[t].ackSuccess
                       /\ Latest(t) => store = pre[t]

C3_Witness ==
  \E t \in TaskIds :
    /\ tasks[t].op = "send" /\ tasks[t].recipientId = tasks[t].userId
    /\ IsDone(t) /\ tasks[t].error = "ValidationError"
    /\ Latest(t) /\ conversations # {}

\* C4: every conversation in the store has exactly two participant rows, of
\* two different users.
C4_TwoDistinctParticipants ==
  \A c \in ConvIds :
    /\ Cardinality({p \in participants : p.conversationId = c}) = 2
    /\ Cardinality(PartUsers(c)) = 2

C4_Witness ==
  /\ \E t \in TaskIds : tasks[t].op = "convdel" /\ IsDone(t) /\ tasks[t].error = "none"
  /\ \E t \in TaskIds : tasks[t].op = "send" /\ IsDone(t) /\ tasks[t].error = "none"
  /\ ConvIds # {}

\* C5: the disconnect of a connection that is not the one the registry holds
\* for its user leaves that user's registry entry as it is.
C5_StaleDisconnectKeepsEntry ==
  [][\A s \in SocketIds :
       (/\ sockets[s].state = "connected"
        /\ sockets'[s].state = "disconnected"
        /\ onlineUsers[sockets[s].userId] # s)
       => onlineUsers'[sockets[s].userId] = onlineUsers[sockets[s].userId]]_vars

\* C6: a connection that authenticates as a user takes the user's registry
\* entry, and every other socket stays as it was: connected, in its rooms.
C6_NewConnectionSupersedes ==
  [][\A s \in SocketIds :
       (sockets[s].state = "unused" /\ sockets'[s].state = "connected")
       => /\ onlineUsers'[sockets'[s].userId] = s
          /\ \A r \in SocketIds \ {s} : sockets'[r] = sockets[r] /\ rooms'[r] = rooms[r]]_vars

C6_Witness ==
  \E s1, s2 \in SocketIds :
    /\ s1 < s2
    /\ sockets[s1].state = "connected" /\ sockets[s2].state = "connected"
    /\ sockets[s1].userId = sockets[s2].userId
    /\ onlineUsers[sockets[s1].userId] = s2
    /\ rooms[s1] = {1}
    /\ ENABLED BeginSend(1, s1, "u2", Hi, TRUE)

\* C7: a handler whose event carries a callback has called it exactly once when
\* it ends, with success exactly when no error was thrown, and not before it ends.
C7_AckExactlyOnce ==
  \A t \in TaskIds :
    tasks[t].cb =>
      /\ IsDone(t) => tasks[t].acks = 1 /\ (tasks[t].ackSuccess <=> tasks[t].error = "none")
      /\ ~IsDone(t) => tasks[t].acks = 0 /\ tasks[t].error = "none"

C7_Witness ==
  /\ \E t \in TaskIds : IsDone(t) /\ tasks[t].error = "PrismaError" /\ tasks[t].acks = 1
  /\ \E t \in TaskIds : IsDone(t) /\ tasks[t].error = "none" /\ tasks[t].acks = 1

\* C8: an operation that ends in an error leaves the store as it was when the
\* operation started, and emits nothing.
C8_FailureLeavesStore ==
  \A t \in TaskIds :
    (Latest(t) /\ IsDone(t) /\ tasks[t].error # "none")
    => store = pre[t] /\ tasks[t].emitted = {}

\* C9: message:send with content that is empty, blank or longer than the limit
\* is rejected with ValidationError: nothing is created or emitted, the ack is a failure.
C9_InvalidContentRejected ==
  \A t \in TaskIds :
    (/\ tasks[t].op = "send"
     /\ tasks[t].content # Undefined
     /\ validateSendMessage(tasks[t].content, tasks[t].recipientId) # "ok"
     /\ Latest(t) /\ IsDone(t))
    => /\ tasks[t].error = "ValidationError"
       /\ ~tasks[t].ackSuccess
       /\ tasks[t].emitted = {}
       /\ store = pre[t]

\* C10: editMessage by a user who is not the sender of an existing message
\* fails with ForbiddenError, leaves every message as it was and emits nothing;
\* editMessage of a message that does not exist fails with NotFoundError.
C10_EditByNonSenderForbidden ==
  \A t \in TaskIds :
    (tasks[t].op = "edit" /\ IsDone(t) /\ Latest(t))
    => IF \E m \in MessagesBefore(t) : m.id = tasks[t].messageId
         THEN \A m \in MessagesBefore(t) :
                (m.id = tasks[t].messageId /\ m.senderId # tasks[t].userId)
                => /\ tasks[t].error = "ForbiddenError"
                   /\ messages = MessagesBefore(t)
                   /\ tasks[t].emitted = {}
                   /\ ~tasks[t].ackSuccess
         ELSE tasks[t].error = "NotFoundError" /\ messages = MessagesBefore(t)

C10_Witness ==
  \E t \in TaskIds, m \in messages :
    /\ tasks[t].op = "edit" /\ IsDone(t) /\ Latest(t)
    /\ m.id = tasks[t].messageId
    /\ m.senderId # tasks[t].userId
    /\ tasks[t].userId \in PartUsers(m.conversationId)
    /\ tasks[t].error = "ForbiddenError"

\* C11: a successful editMessage changes the content, isEdited (to true) and
\* editedAt of its message and nothing else: the message keeps its id, sender,
\* conversation, creation time and reactions, every other message is as it was,
\* and the one event emitted is message:edited to the conversation's room with
\* the content now stored and isEdited true.
C11_EditChangesContentOnly ==
  \A t \in TaskIds :
    (tasks[t].op = "edit" /\ IsDone(t) /\ tasks[t].error = "none" /\ Latest(t))
    => /\ {m \in messages : m.id # tasks[t].messageId}
            = {m \in MessagesBefore(t) : m.id # tasks[t].messageId}
       /\ reactions = pre[t][4]
       /\ conversations = pre[t][1] /\ participants = pre[t][2]
       /\ \E old \in MessagesBefore(t), new \in messages :
            /\ old.id = tasks[t].messageId /\ new.id = old.id
            /\ new.senderId = old.senderId
            /\ new.conversationId = old.conversationId
            /\ new.createdAt = old.createdAt
            /\ new.isEdited
            /\ new.editedAt > old.createdAt
            /\ tasks[t].emitted =
                 {Event("message:edited", old.conversationId, 0,
                        Payload(old.id, old.conversationId, new.content, TRUE, ""))}

C11_Witness ==
  \E t \in TaskIds, m \in messages, r \in reactions :
    /\ tasks[t].op = "edit" /\ IsDone(t) /\ tasks[t].error = "none" /\ Latest(t)
    /\ m.id = tasks[t].messageId /\ r.messageId = m.id
    /\ m.content = Hello /\ m.isEdited
    /\ \E old \in MessagesBefore(t) : old.id = m.id /\ old.content = Hi /\ ~old.isEdited

ReactTriple(k) == Reaction(k.messageId, k.userId, k.emoji)
ReactionsBefore(t) == pre[t][4]
ReactOk(t) == tasks[t].op = "react" /\ IsDone(t) /\ tasks[t].error = "none"

\* C12: two message:react in a row by a participant with the same message and
\* emoji both succeed and leave the reactions of the store as they were before
\* the first (from no reaction: added, then removed, none left); the reactions
\* of other users and other emojis are the same rows throughout.
C12_ToggleTwiceRestores ==
  \A t \in TaskIds :
    (/\ t + 1 \in TaskIds
     /\ tasks[t].op = "react" /\ tasks[t + 1].op = "react"
     /\ ReactTriple(tasks[t]) = ReactTriple(tasks[t + 1])
     /\ IsParticipant(1, tasks[t].userId)
     /\ IsDone(t + 1) /\ Latest(t + 1))
    => /\ tasks[t].error = "none" /\ tasks[t + 1].error = "none"
       /\ reactions = ReactionsBefore(t)
       /\ ReactionsBefore(t + 1) \ {ReactTriple(tasks[t])}
            = ReactionsBefore(t) \ {ReactTriple(tasks[t])}

C12_Witness ==
  \E t \in TaskIds :
    /\ t + 1 \in TaskIds
    /\ ReactOk(t) /\ ReactOk(t + 1) /\ Latest(t + 1)
    /\ ReactTriple(tasks[t]) = Reaction(1, "u1", "heart")
    /\ ReactTriple(tasks[t + 1]) = Reaction(1, "u1", "heart")
    /\ ReactionsBefore(t) = {Reaction(1, "u1", "thumbsup"), Reaction(1, "u2", "heart")}
    /\ ReactionsBefore(t + 1) = ReactionsBefore(t) \cup {Reaction(1, "u1", "heart")}
    /\ reactions = ReactionsBefore(t)

\* C13: a successful message:react reports "added" exactly when its triple was
\* not in the store when the event arrived and "removed" exactly when it was,
\* so successive reacts with one triple alternate; the message:reaction event
\* sent to the conversation's room carries the action reported.
C13_ActionTellsWhatHappened ==
  \A t \in TaskIds :
    (ReactOk(t) /\ Latest(t))
    => /\ tasks[t].action = "added" <=> ReactTriple(tasks[t]) \notin ReactionsBefore(t)
       /\ tasks[t].action = "removed" <=> ReactTriple(tasks[t]) \in ReactionsBefore(t)
       /\ tasks[t].emitted =
            {Event("message:reaction", 1, 0, Payload(tasks[t].messageId, 1, Empty, FALSE, tasks[t].action))}
       /\ \A r \in TaskIds :
            (r + 1 = t /\ ReactOk(r) /\ ReactTriple(tasks[r]) = ReactTriple(tasks[t]))
            => tasks[r].action # tasks[t].action

C13_Witness ==
  /\ 3 \in TaskIds
  /\ ReactOk(1) /\ ReactOk(2) /\ ReactOk(3) /\ Latest(3)
  /\ ReactTriple(tasks[1]) = ReactTriple(tasks[2])
  /\ ReactTriple(tasks[2]) = ReactTriple(tasks[3])
  /\ tasks[1].action = "added" /\ tasks[2].action = "removed" /\ tasks[3].action = "added"
  /\ \E e \in tasks[3].emitted : e.ev = "message:reaction" /\ e.data.action = "added"

\* no row of the store refers to a conversation or a message that is not there
NoOrphans ==
  /\ \A p \in participants : p.conversationId \in ConvIds
  /\ \A m \in messages : m.conversationId \in ConvIds
  /\ \A r \in reactions : r.messageId \in MsgIds

\* C14: deleteConversation is all-or-nothing.  The step that removes a
\* conversation is the delete of a conversation:delete handler and removes, in
\* that one step, its participant rows, its messages and their reactions, so no
\* state that another handler can see holds a part of a deleted conversation;
\* every other step of a conversation:delete handler, its failures included,
\* leaves the store as it is.
C14_DeleteConversationAtomic ==
  [][/\ NoOrphans'
     /\ \A c \in ConvIds \ ConvIds' :
          /\ \E t \in TaskIds : /\ tasks[t].pc = "cd_delete" /\ tasks'[t].pc = "cd_emit"
                                 /\ tasks[t].conversationId = c
          /\ \A p \in participants' : p.conversationId # c
          /\ \A m \in messages' : m.conversationId # c
          /\ \A r \in reactions' : r.messageId \notin {m.id : m \in MsgsOf(c)}
          /\ {q \in conversations : q.id # c} = conversations'
          /\ {p \in participants : p.conversationId # c} = participants'
          /\ {m \in messages : m.conversationId # c} = messages'
     /\ \A t \in TaskIds :
          (/\ tasks[t].op = "convdel" /\ tasks'[t] # tasks[t]
           /\ ~(tasks[t].pc = "cd_delete" /\ tasks'[t].pc = "cd_emit"))
          => store' = store
     /\ \A t \in TaskIds :
          (tasks[t].pc = "cd_delete" /\ tasks'[t].pc = "cd_emit")
          => tasks[t].conversationId \notin ConvIds']_vars

C14_Witness ==
  \E t, r \in TaskIds :
    /\ tasks[t].op = "convdel" /\ IsDone(t) /\ tasks[t].error = "none"
    /\ tasks[r].op = "react" /\ tasks[r].action = "added" /\ tasks[r].pc = "react_msg"
    /\ conversations = {} /\ participants = {} /\ messages = {} /\ reactions = {}
    /\ nextMsgId > 1

\* the user of task t was a participant of conversation c until an earlier
\* conversation:delete removed it
FormerParticipant(t, c) ==
  \E d \in TaskIds :
    /\ d < t /\ tasks[d].op = "convdel" /\ IsDone(d) /\ tasks[d].error = "none"
    /\ tasks[d].conversationId = c /\ tasks[t].userId \in tasks[d].parts

\* C15: getMessages with the id of a deleted conversation, by a user who was a
\* participant of it, returns an empty list or fails with NotFoundError.
C15_DeletedConversationHasNoMessages ==
  \A t \in TaskIds :
    (/\ tasks[t].op = "getmsgs" /\ IsDone(t)
     /\ tasks[t].conversationId \notin ConvIds
     /\ FormerParticipant(t, tasks[t].conversationId))
    => \/ tasks[t].error = "none" /\ tasks[t].result = << >>
       \/ tasks[t].error = "NotFoundError"

\* what task t is aimed at, as the store was when its event arrived
TargetConversations(t) ==
  IF tasks[t].op \in {"delete", "react"}
    THEN {m.conversationId : m \in {x \in MessagesBefore(t) : x.id = tasks[t].messageId}}
    ELSE {c.id : c \in {x \in pre[t][1] : x.id = tasks[t].conversationId}}

ParticipantBefore(t, c) ==
  \E p \in pre[t][2] : p.conversationId = c /\ p.userId = tasks[t].userId

\* C18: deleteMessage, the react operation, deleteConversation, getMessages and
\* markAsRead by a user who is not a participant of the conversation they are
\* aimed at fail with ForbiddenError, emit nothing and leave conversations,
\* participants (with every lastReadAt), messages and reactions as they were.
C18_NonParticipantForbidden ==
  \A t \in TaskIds :
    (/\ tasks[t].op \in {"delete", "react", "convdel", "getmsgs", "markread"}
     /\ IsDone(t) /\ Latest(t)
     /\ \E c \in TargetConversations(t) : ~ParticipantBefore(t, c))
    => /\ tasks[t].error = "ForbiddenError"
       /\ store = pre[t]
       /\ tasks[t].emitted = {} /\ tasks[t].result = << >>
       /\ ~tasks[t].ackSuccess

C18_Witness ==
  \E t1, t2, t3 \in TaskIds :
    /\ t1 < t2 /\ t2 < t3 /\ Latest(t3)
    /\ \A t \in {t1, t2, t3} :
         /\ tasks[t].userId = "u3" /\ IsDone(t) /\ tasks[t].error = "ForbiddenError"
    /\ tasks[t1].op = "getmsgs" /\ tasks[t2].op = "markread" /\ tasks[t3].op = "delete"
    /\ store = pre[t1] /\ messages # {} /\ reactions # {}

\* task t ends in this step, with success
Emits(t) == tasks[t].pc # "done" /\ tasks'[t].pc = "done" /\ tasks'[t].error = "none"

HasLiveConnection(u) ==
  \E s \in SocketIds : sockets[s].state = "connected" /\ sockets[s].userId = u

\* C16: when conversation:delete succeeds, each of the two participants who
\* has a connected socket at that moment receives conversation:deleted with the
\* conversation id, sent to a socket and not to the room.
C16_DeletedReachesConnectedParticipants ==
  [][\A t \in TaskIds :
       (Emits(t) /\ tasks[t].op = "convdel")
       => /\ \A e \in tasks'[t].emitted : e.ev = "conversation:deleted" /\ e.room = 0
          /\ \A u \in tasks[t].parts :
               HasLiveConnection(u)
               => \E d \in tasks'[t].delivered :
                    /\ d.ev = "conversation:deleted"
                    /\ sockets[d.socket].userId = u
                    /\ d.data.conversationId = tasks[t].conversationId]_vars

RoomEventOf(op) ==
  IF op = "send" THEN "message:new"
  ELSE IF op = "edit" THEN "message:edited"
  ELSE IF op = "delete" THEN "message:deleted"
  ELSE "message:reaction"

\* C19: the room event of a successful message:send, message:edit,
\* message:delete or message:react is emitted to the room of the message's
\* conversation and received by exactly the sockets that are connected and in
\* that room when it is emitted, the sender's included; a socket outside the
\* room does not receive it, whoever its user is.
C19_RoomEventReachesJoined ==
  [][\A t \in TaskIds :
       (Emits(t) /\ tasks[t].op \in {"send", "edit", "delete", "react"})
       => /\ \E e \in tasks'[t].emitted :
               e.ev = RoomEventOf(tasks[t].op) /\ e.room = tasks[t].conv /\ e.to = 0
          /\ \A e \in tasks'[t].emitted :
               e.room # 0
               => {d.socket : d \in {x \in tasks'[t].delivered : x.ev = e.ev}}
                    = {s \in SocketIds : sockets[s].state = "connected" /\ e.room \in rooms[s]}]_vars

C19_Witness ==
  \E s1, s2, s3 \in SocketIds :
    /\ s1 # s2 /\ s3 \notin {s1, s2}
    /\ tasks[1].op = "send" /\ IsDone(1) /\ tasks[1].error = "none" /\ tasks[1].socket = s1
    /\ {d.socket : d \in {x \in tasks[1].delivered : x.ev = "message:new"}} = {s1, s2}
    /\ sockets[s3].state = "connected" /\ sockets[s3].userId = "u2" /\ rooms[s3] = {}
    /\ rooms[s1] = {1} /\ rooms[s2] = {1}

\* C20: a successful message:send emits conversation:update, with the
\* conversation id and the new message, to the socket the registry holds for
\* the recipient exactly when the registry holds one as the handler emits; with
\* no entry the message is in the store, the ack is success and nothing is
\* sent directly.
C20_DirectUpdateIffRegistered ==
  [][(tasks[1].pc = "send_emit" /\ tasks'[1].pc = "done")
     => LET direct == {e \in tasks'[1].emitted : e.room = 0} IN
        /\ direct # {} <=> onlineUsers[tasks[1].recipientId] # 0
        /\ \A e \in direct :
             /\ e.ev = "conversation:update"
             /\ e.to = onlineUsers[tasks[1].recipientId]
             /\ e.data.conversationId = tasks[1].conv
             /\ e.data.messageId = tasks[1].msg
        /\ tasks'[1].error = "none"
        /\ tasks[1].cb => tasks'[1].acks = 1 /\ tasks'[1].ackSuccess
        /\ \E m \in messages' : m.id = tasks[1].msg /\ m.conversationId = tasks[1].conv]_vars

C20_Witness ==
  /\ tasks[1].op = "send" /\ IsDone(1) /\ tasks[1].error = "none"
  /\ tasks[1].cb /\ tasks[1].ackSuccess
  /\ \A e \in tasks[1].emitted : e.ev = "message:new"
  /\ \E m \in messages : m.id = tasks[1].msg
  /\ \A d \in tasks[1].delivered : sockets[d.socket].userId # tasks[1].recipientId

SendOk(t) == tasks[t].op = "send" /\ IsDone(t) /\ tasks[t].error = "none"
PairOf(k) == {k.userId, k.recipientId}

\* C17: after conversation:delete removed the conversation of A and B, the
\* next successful message:send between A and B made a conversation that did
\* not exist when the event arrived, with an id other than the deleted one,
\* and this conversation holds the new message and no other.
C17_SendAfterDeleteStartsAfresh ==
  \A d, t \in TaskIds :
    (/\ d < t
     /\ tasks[d].op = "convdel" /\ IsDone(d) /\ tasks[d].error = "none"
     /\ SendOk(t) /\ Latest(t)
     /\ PairOf(tasks[t]) = tasks[d].parts
     /\ \A r \in TaskIds : (d < r /\ r < t) => ~(SendOk(r) /\ PairOf(tasks[r]) = tasks[d].parts))
    => /\ tasks[t].conv # tasks[d].conversationId
       /\ tasks[t].conv \notin {c.id : c \in pre[t][1]}
       /\ tasks[t].conv \in ConvIds
       /\ PartUsers(tasks[t].conv) = tasks[d].parts
       /\ {m.id : m \in MsgsOf(tasks[t].conv)} = {tasks[t].msg}
       /\ tasks[t].msg \notin {m.id : m \in pre[d][3]}

C17_Witness ==
  \E d, t \in TaskIds :
    /\ d < t /\ Latest(t)
    /\ tasks[d].op = "convdel" /\ IsDone(d) /\ tasks[d].error = "none"
    /\ tasks[d].parts = {"u1", "u2"} /\ pre[d][3] # {}
    /\ SendOk(t) /\ tasks[t].userId = "u2" /\ tasks[t].recipientId = "u1"
    /\ tasks[t].conv = tasks[d].conversationId + 1
    /\ Cardinality(messages) = 1

\* the handshake of socket s carried no token or one that does not verify
BadHandshake(s) == wire[s].token \in {"none", "forged_u1", "expired_u2"}

\* C21: a connection whose handshake carries no token, or a token that fails
\* verification, is refused by the middleware and stays refused: it is never
\* connected, never in the presence registry, causes no user:online, is in no
\* room and cannot join one, and no handler starts for an event on it.
C21_BadTokenRejected ==
  [][\A s \in SocketIds :
       BadHandshake(s)'
       => /\ sockets'[s].state = "rejected"
          /\ \A u \in Users : onlineUsers'[u] # s
          /\ wire'[s].online = << >> /\ wire'[s].offline = << >>
          /\ rooms'[s] = {}
          /\ ~(ENABLED Join(s, 1))'
          /\ ~(ENABLED BeginSend(1, s, "u2", Hi, TRUE))'
          /\ ~(ENABLED BeginConvDelete(1, s, 1, TRUE))'
          /\ \A t \in TaskIds : tasks'[t].socket # s
          /\ BadHandshake(s) => wire'[s] = wire[s] /\ sockets'[s] = sockets[s]]_vars

C21_Witness ==
  \E s1, s2, s3 \in SocketIds :
    /\ wire[s1].token = "forged_u1" /\ sockets[s1].state = "rejected"
    /\ wire[s2].token = "none" /\ sockets[s2].state = "rejected"
    /\ wire[s3].token = "access_u2" /\ sockets[s3].state = "connected"
    /\ s1 < s3 /\ rooms[s3] = {1}
    /\ onlineUsers = [u \in Users |-> IF u = "u2" THEN s3 ELSE 0]
    /\ wire[s3].online = << [userId |-> "u2", to |-> {}] >>

\* C22: the connection of a socket as user U sends one user:online {U} to the
\* sockets connected at that moment and not to the new one; its disconnect
\* sends one user:offline {U} to the sockets connected at that moment; nothing
\* else sends either, so no socket has more of user:offline than of user:online.
C22_OnlineThenOffline ==
  [][\A s \in SocketIds :
       LET others == {r \in SocketIds \ {s} : sockets[r].state = "connected"} IN
       /\ (sockets[s].state = "unused" /\ sockets'[s].state = "connected")
          => /\ wire'[s].online = << [userId |-> sockets'[s].userId, to |-> others] >>
             /\ wire'[s].offline = << >>
       /\ (sockets[s].state = "connected" /\ sockets'[s].state = "disconnected")
          => /\ wire'[s].offline = << [userId |-> sockets[s].userId, to |-> others] >>
             /\ wire'[s].online = wire[s].online /\ Len(wire[s].online) = 1
       /\ sockets'[s].state = sockets[s].state
          => wire'[s].online = wire[s].online /\ wire'[s].offline = wire[s].offline
       /\ Len(wire'[s].offline) <= Len(wire'[s].online)]_vars

C22_Witness ==
  \E s1, s2 \in SocketIds :
    /\ s1 < s2
    /\ sockets[s1].state = "disconnected" /\ sockets[s1].userId = "u1"
    /\ sockets[s2].state = "connected" /\ sockets[s2].userId = "u1"
    /\ wire[s2].online = << [userId |-> "u1", to |-> {s1}] >>
    /\ wire[s1].offline = << [userId |-> "u1", to |-> {s2}] >>
    /\ wire[s2].offline = << >>

\* C23: the lastReadAt of a participant row never decreases, whatever the
\* order in which getMessages and markAsRead calls of the participant take
\* their timestamps and complete their writes.
C23_LastReadAtNeverDecreases ==
  [][\A p \in participants : \A q \in participants' :
       (q.conversationId = p.conversationId /\ q.userId = p.userId)
       => q.lastReadAt >= p.lastReadAt]_vars

\* the place of message m among the messages ms, newest first
Rank(m, ms) == 1 + Cardinality({x \in ms : x.createdAt > m.createdAt})

\* C24: getMessages(c, u, p, n) by a participant succeeds and returns the
\* messages of c ranked (p-1)*n+1 .. p*n newest-first and no other, oldest
\* first; a page past the end is empty.
C24_PageIsRankedSlice ==
  \A t \in TaskIds :
    (/\ tasks[t].op = "getmsgs" /\ IsDone(t) /\ Latest(t)
     /\ ParticipantBefore(t, tasks[t].conversationId))
    => LET ms == {m \in MessagesBefore(t) : m.conversationId = tasks[t].conversationId}
           r == tasks[t].result
           lo == (tasks[t].page - 1) * tasks[t].limit + 1
           hi == tasks[t].page * tasks[t].limit
       IN /\ tasks[t].error = "none"
          /\ {r[i] : i \in 1..Len(r)} = {m \in ms : Rank(m, ms) \in lo..hi}
          /\ \A i, j \in 1..Len(r) : i < j => r[i].createdAt < r[j].createdAt
          /\ lo > Cardinality(ms) => r = << >>
          /\ messages = MessagesBefore(t)

C24_Witness ==
  \E t \in TaskIds :
    /\ tasks[t].op = "getmsgs" /\ IsDone(t) /\ Latest(t) /\ tasks[t].error = "none"
    /\ tasks[t].page = 2 /\ tasks[t].limit = 1 /\ tasks[t].conversationId = 1
    /\ Len(tasks[t].result) = 1 /\ tasks[t].result[1].id = 1
    /\ Cardinality(MsgsOf(1)) = 2
    /\ \E m \in messages : m.conversationId = 2

ConvById(id) == CHOOSE c \in conversations : c.id = id

\* C25: getUserConversations(U) returns the conversations U is a participant
\* of and no other, by updatedAt descending, each with the other participant
\* and its newest message; and once the sends have ended, the conversation
\* that holds the newest message of all of U's conversations comes first.
C25_ConversationsByLastActivity ==
  [][\A t \in TaskIds :
       (tasks[t].pc = "guc_list" /\ tasks'[t].pc = "done")
       => LET u == tasks[t].userId
              r == tasks'[t].result
              mine == {c \in ConvIds : u \in PartUsers(c)}
              theirs == {m \in messages : m.conversationId \in mine}
          IN /\ tasks'[t].error = "none"
             /\ {r[i].id : i \in 1..Len(r)} = mine /\ Len(r) = Cardinality(mine)
             /\ \A i, j \in 1..Len(r) : i < j => r[i].updatedAt >= r[j].updatedAt
             /\ \A i \in 1..Len(r) :
                  /\ r[i].updatedAt = ConvById(r[i].id).updatedAt
                  /\ PartUsers(r[i].id) = {u, r[i].otherUser} /\ r[i].otherUser # u
                  /\ IF MsgsOf(r[i].id) = {} THEN r[i].lastMessage = 0
                     ELSE \E m \in MsgsOf(r[i].id) :
                            /\ m.id = r[i].lastMessage
                            /\ \A x \in MsgsOf(r[i].id) : x.createdAt <= m.createdAt
             /\ ((\A x \in TaskIds : tasks[x].op = "send" => IsDone(x)) /\ theirs # {})
                => \E m \in theirs : /\ \A x \in theirs : x.createdAt <= m.createdAt
                                      /\ r[1].id = m.conversationId]_vars

\* C27: events of one connection are handled one at a time: while the handler
\* of an earlier event on a connection is suspended at a store call, no handler
\* of a later event on that connection has begun its store calls.
C27_OneAtATimePerConnection ==
  \A t1, t2 \in TaskIds :
    (t1 < t2 /\ tasks[t1].socket = tasks[t2].socket /\ InFlight(t1)) => ~InFlight(t2)

MessageMutating == {"send", "edit", "delete"}

\* C26: when one connection issues e1 and then e2 on the same conversation,
\* the room event of e1 is emitted before the room event of e2, and of two
\* sends the message of e1 is the earlier one in the store.
C26_SameConnectionOrder ==
  [][\A t1, t2 \in TaskIds :
       (/\ t1 < t2 /\ tasks[t1].socket = tasks[t2].socket /\ Emits(t1)
        /\ tasks[t1].op \in MessageMutating /\ tasks[t2].op \in MessageMutating)
       => /\ \A e1 \in tasks'[t1].emitted :
               e1.room # 0
               => ~(IsDone(t2) /\ \E e2 \in tasks[t2].emitted : e2.room = e1.room)
          /\ (/\ tasks[t1].op = "send" /\ SendOk(t2)
              /\ tasks[t1].conv = tasks[t2].conv)
             => \E m1, m2 \in messages :
                  /\ m1.id = tasks[t1].msg /\ m2.id = tasks[t2].msg
                  /\ m1.createdAt < m2.createdAt]_vars

\* the connection a handler serves has closed
Gone(t) == tasks[t].socket \in SocketIds /\ sockets[tasks[t].socket].state # "connected"

EmitPcs == {"send_emit", "edit_emit", "del_emit", "react_emit", "cd_emit"}

\* every store effect of the operation of handler k is in the store
EffectsInFull(k) ==
  IF k.op = "send"
    THEN /\ PartUsers(k.conv) = {k.userId, k.recipientId}
         /\ \E m \in messages, c \in conversations :
              /\ m.id = k.msg /\ m.conversationId = k.conv /\ m.senderId = k.userId
              /\ m.content = sanitizeString(k.content)
              /\ c.id = k.conv /\ c.updatedAt > m.createdAt
  ELSE IF k.op = "edit"
    THEN \E m \in messages :
           m.id = k.messageId /\ m.content = sanitizeString(k.content) /\ m.isEdited
  ELSE IF k.op = "delete"
    THEN k.messageId \notin MsgIds /\ \A r \in reactions : r.messageId # k.messageId
  ELSE IF k.op = "react"
    THEN k.action = "added" <=> ReactTriple(k) \in reactions
  ELSE /\ k.conversationId \notin ConvIds
       /\ \A p \in participants : p.conversationId # k.conversationId
       /\ \A m \in messages : m.conversationId # k.conversationId

\* C28: a handler whose connection closed while it was suspended at a store
\* call still takes its next step; when it has made its store calls it ends
\* without an error, with every store effect of its operation applied, its
\* room events received by the connected sockets of the room, and nothing
\* sent to the closed connection.
C28_CompletesAfterDisconnect ==
  [][\A t \in TaskIds :
       /\ (InFlight(t) /\ Gone(t)) => ENABLED Step(t)
       /\ (tasks[t].pc \in EmitPcs /\ Gone(t) /\ tasks'[t] # tasks[t])
          => /\ tasks'[t].pc = "done" /\ tasks'[t].error = "none"
             /\ EffectsInFull(tasks[t])
             /\ UNCHANGED storeVars
             /\ \A e \in tasks'[t].emitted :
                  e.room # 0
                  => {d.socket : d \in {x \in tasks'[t].delivered : x.ev = e.ev}}
                       = {s \in SocketIds : sockets[s].state = "connected" /\ e.room \in rooms[s]}
             /\ \A d \in tasks'[t].delivered : d.socket # tasks[t].socket]_vars

C28_Witness ==
  /\ tasks[1].op = "send" /\ tasks[1].pc = "send_emit" /\ Gone(1)
  /\ tasks[1].msg \in MsgIds
  /\ \E s \in SocketIds : sockets[s].state = "connected" /\ tasks[1].conv \in rooms[s]

\* C29: a typing:start or typing:stop for conversation c reaches the connected
\* sockets in the room of c other than the sender's, as the same event with
\* the user id of the sender's verified token and c, whatever user id the
\* client put in its payload; the store, the connections, the rooms and the
\* registry stay as they are and no acknowledgment is sent.
C29_TypingRelayedToOthers ==
  [][\A t \in TaskIds :
       (tasks[t].pc = "idle" /\ tasks'[t].op \in TypingEvents)
       => LET k == tasks'[t]
              data == [userId |-> sockets[k.socket].userId, conversationId |-> k.conversationId]
          IN /\ k.pc = "done" /\ k.error = "none"
             /\ {d.socket : d \in k.delivered}
                  = {x \in SocketIds \ {k.socket} :
                       sockets[x].state = "connected" /\ k.conversationId \in rooms[x]}
             /\ \A d \in k.delivered : d.ev = k.op /\ d.data = data
             /\ k.acks = 0
             /\ UNCHANGED << storeVars, gatewayVars, chat >>]_vars

C29_Witness ==
  \E s \in SocketIds :
    /\ tasks[1].op = "typing:start" /\ IsDone(1) /\ tasks[1].conversationId = 1
    /\ tasks[1].userId = "u1" /\ tasks[1].claimed = "u2"
    /\ s # tasks[1].socket
    /\ tasks[1].delivered =
         {[socket |-> s, ev |-> "typing:start", data |-> [userId |-> "u1", conversationId |-> 1]]}
    /\ sockets[tasks[1].socket].state = "connected" /\ 1 \in rooms[tasks[1].socket]

\* C30: message:delete by a participant of the message's conversation, the
\* sender or not, succeeds, takes the message and its reactions out of the
\* store, leaves every other message and reaction as it was, and emits
\* message:deleted with the message id to the room; from then on a
\* getMessages result holds only messages that are in the store, and
\* message:edit, message:react and message:delete on the deleted id fail with
\* NotFoundError, whoever asks, and change nothing.
C30_DeleteRemovesEntirely ==
  \A t \in TaskIds :
    (IsDone(t) /\ Latest(t))
    => LET k == tasks[t]
           before == {m \in MessagesBefore(t) : m.id = k.messageId}
       IN /\ (k.op = "delete" /\ before # {} /\ IsParticipant(1, k.userId))
             => /\ k.error = "none"
                /\ messages = MessagesBefore(t) \ before
                /\ reactions = {r \in ReactionsBefore(t) : r.messageId # k.messageId}
                /\ k.emitted = {Event("message:deleted", 1, 0,
                                      Payload(k.messageId, 1, Empty, FALSE, ""))}
          /\ (k.op \in {"edit", "react", "delete"} /\ before = {})
             => /\ k.error = "NotFoundError" /\ k.emitted = {}
                /\ messages = MessagesBefore(t) /\ reactions = ReactionsBefore(t)
          /\ (k.op = "getmsgs" /\ IsParticipant(1, k.userId))
             => /\ k.error = "none"
                /\ {k.result[i] : i \in 1..Len(k.result)} = MessagesBefore(t)
                /\ messages = MessagesBefore(t)

C30_Witness ==
  /\ 3 \in TaskIds
  /\ tasks[1].op = "delete" /\ tasks[1].messageId = 1 /\ tasks[1].userId = "u2"
  /\ tasks[1].error = "none"
  /\ tasks[2].op = "edit" /\ tasks[2].userId = "u1" /\ tasks[2].error = "NotFoundError"
  /\ tasks[3].op = "getmsgs" /\ IsDone(3) /\ tasks[3].error = "none"
  /\ Len(tasks[3].result) = 1 /\ tasks[3].result[1].id = 2
  /\ reactions = {Reaction(2, "u1", "thumbsup")}

\* C31: sendMessage is one atomic store transaction: while a send is in
\* progress no state shows the conversation it works on without a message, or
\* the message it inserted with the conversation's updatedAt not yet past the
\* message's creation time.
C31_SendIsOneTransaction ==
  \A t \in TaskIds :
    (tasks[t].op = "send" /\ InFlight(t))
    => /\ tasks[t].conv \in ConvIds => MsgsOf(tasks[t].conv) # {}
       /\ tasks[t].msg \in MsgIds
          => ConvById(tasks[t].conv).updatedAt > MsgById(tasks[t].msg).createdAt

\* C32: a message:react acknowledged with success:true has emitted exactly one
\* message:reaction event, for its message, to the room of a conversation, also
\* when a message:delete or conversation:delete ran between its store calls.
C32_ReactionEventWithEverySuccess ==
  \A t \in TaskIds :
    (tasks[t].op = "react" /\ IsDone(t) /\ tasks[t].ackSuccess)
    => \E e \in tasks[t].emitted :
         /\ tasks[t].emitted = {e}
         /\ e.ev = "message:reaction" /\ e.room # 0 /\ e.to = 0
         /\ e.data.messageId = tasks[t].messageId

\* C33: the store holds at most one reaction per (message, user, emoji), and a
\* react reports "added" only in the step that inserts its triple into a store
\* that did not hold it: of two reacts with one triple that both found it
\* absent, once one has written the create of the other can only fail, so at
\* most one of them reports "added".
C33_OneReactionPerTriple ==
  [][/\ \A m \in KnownMsgIds, u \in Users, e \in Emojis :
          Cardinality({r \in reactions' : r = Reaction(m, u, e)}) <= 1
     /\ \A t \in TaskIds :
          (tasks[t].pc = "react_write" /\ tasks'[t].action = "added")
          => ReactTriple(tasks[t]) \notin reactions /\ ReactTriple(tasks[t]) \in reactions'
     /\ \A t1, t2 \in TaskIds :
          (/\ t1 # t2 /\ ReactTriple(tasks[t1]) = ReactTriple(tasks[t2])
           /\ tasks[t1].pc = "react_write" /\ ~tasks[t1].existing
           /\ tasks[t2].pc = "react_write" /\ ~tasks[t2].existing
           /\ tasks'[t1].action = "added")
          => /\ tasks'[t2].pc = "react_write"
             /\ (ENABLED (ReactWrite(t2) /\ tasks'[t2].error = "PrismaError"))'
             /\ ~(ENABLED (ReactWrite(t2) /\ tasks'[t2].action = "added"))']_vars

C33_Witness ==
  \E t1, t2 \in TaskIds :
    /\ t1 # t2 /\ ReactTriple(tasks[t1]) = ReactTriple(tasks[t2])
    /\ ~tasks[t1].existing /\ ~tasks[t2].existing
    /\ ReactOk(t1) /\ tasks[t1].action = "added"
    /\ IsDone(t2) /\ tasks[t2].error = "PrismaError" /\ ~tasks[t2].ackSuccess
    /\ reactions = {Reaction(1, "u2", "thumbsup"), ReactTriple(tasks[t1])}

\* C34: in every state, under any interleaving of send, delete-message, react
\* and delete-conversation, each message belongs to exactly one conversation
\* that exists and was sent by one of its participants, and each reaction is on
\* a message that exists, by a participant of that message's conversation.
C34_ReferentialIntegrity ==
  /\ \A m \in messages :
       /\ Cardinality({c \in conversations : c.id = m.conversationId}) = 1
       /\ m.senderId \in PartUsers(m.conversationId)
  /\ \A r \in reactions :
       /\ Cardinality({m \in messages : m.id = r.messageId}) = 1
       /\ r.userId \in PartUsers(MsgById(r.messageId).conversationId)

C34_Witness ==
  \E t1, t2 \in TaskIds :
    /\ tasks[t1].op = "send" /\ IsDone(t1) /\ tasks[t1].error = "PrismaError"
    /\ tasks[t1].conv = 1 /\ tasks[t1].msg = 0
    /\ tasks[t2].op = "convdel" /\ IsDone(t2) /\ tasks[t2].error = "none"
    /\ conversations = {} /\ messages = {} /\ reactions = {}

\* C35: a conversation deleted through DELETE /conversations/:id is gone from
\* the store and each of its two participants that is connected receives
\* conversation:deleted for it, as with the conversation:delete event.
C35_RestDeleteNotifies ==
  [][\A t \in TaskIds :
       (/\ tasks[t].op \in {"convdel", "rest_convdel"}
        /\ tasks[t].pc = "cd_emit" /\ tasks'[t].pc = "done")
       => /\ tasks'[t].error = "none"
          /\ tasks[t].conversationId \notin ConvIds
          /\ \A u \in tasks[t].parts :
               HasLiveConnection(u)
               => \E d \in tasks'[t].delivered :
                    /\ d.ev = "conversation:deleted"
                    /\ sockets[d.socket].userId = u
                    /\ d.data.conversationId = tasks[t].conversationId]_vars

\* C36: every entry of the registry names a socket that is connected and
\* authenticated as the entry's user; a socket that has disconnected, or whose
\* handshake was refused, is in no entry.
C36_RegistryHoldsLiveSockets ==
  \A u \in Users :
    onlineUsers[u] # 0
    => /\ sockets[onlineUsers[u]].state = "connected"
       /\ sockets[onlineUsers[u]].userId = u

C36_Witness ==
  /\ sockets[1].state = "disconnected" /\ sockets[1].userId = "u1"
  /\ sockets[2].state = "rejected"
  /\ sockets[3].state = "connected" /\ sockets[3].userId = "u1"
  /\ onlineUsers["u1"] = 3

\* C37: user:offline {U} is broadcast only when U has no connection left: the
\* disconnect of one connection of U while another is open broadcasts nothing
\* and leaves U in the registry (getOnlineUsers() lists its keys).
C37_OfflineOnlyWithoutConnections ==
  [][\A s \in SocketIds :
       (/\ sockets[s].state = "connected" /\ sockets'[s].state = "disconnected"
        /\ \E r \in SocketIds \ {s} :
             sockets[r].state = "connected" /\ sockets[r].userId = sockets[s].userId)
       => /\ wire'[s].offline = wire[s].offline
          /\ onlineUsers'[sockets[s].userId] # 0]_vars

ConversationEvents ==
  {"message:new", "message:edited", "message:deleted", "message:reaction"} \cup TypingEvents

\* C38: the message events and typing events of a conversation are received
\* only by connections authenticated as one of its participants, whatever
\* conversation:join events a connection of a third user has sent.
C38_OnlyParticipantsReceive ==
  \A t \in TaskIds : \A d \in tasks[t].delivered :
    d.ev \in ConversationEvents
    => sockets[d.socket].userId \in PartUsers(d.data.conversationId)

\* the conversation:delete handlers that passed the checks of conversation c
PassedCheck(c) == {t \in TaskIds : tasks[t].op = "convdel" /\ tasks[t].conv = c}

\* C39: of the conversation:delete handlers that all passed the existence and
\* participant check of one conversation before any delete was applied, at
\* most one succeeds and, once they have ended, exactly one; the others are
\* acknowledged once with success:false and emit nothing, so a socket receives
\* conversation:deleted for the conversation at most once.
C39_OneDeleteWins ==
  \A c \in KnownConvIds :
    LET done == {t \in PassedCheck(c) : IsDone(t)}
        won == {t \in done : tasks[t].error = "none"}
    IN /\ Cardinality(won) <= 1
       /\ (done # {} /\ done = PassedCheck(c)) => Cardinality(won) = 1
       /\ \A t \in done \ won :
            tasks[t].acks = 1 /\ ~tasks[t].ackSuccess /\ tasks[t].delivered = {}
       /\ \A s \in SocketIds :
            Cardinality({t \in done : \E d \in tasks[t].delivered :
                           d.socket = s /\ d.ev = "conversation:deleted"}) <= 1

C39_Witness ==
  \E t1, t2 \in TaskIds :
    /\ tasks[t1].userId = "u1" /\ tasks[t2].userId = "u2"
    /\ {t1, t2} \subseteq PassedCheck(1) /\ IsDone(t1) /\ IsDone(t2)
    /\ tasks[t1].error = "PrismaError" /\ tasks[t1].acks = 1 /\ ~tasks[t1].ackSuccess
    /\ tasks[t2].error = "none" /\ tasks[t2].ackSuccess
    /\ {d.socket : d \in tasks[t2].delivered} = {1, 2}
    /\ conversations = {}

\* the conversations of a chat state other than c, in their order
ChatOthers(state, c) ==
  LET other(x) == x.id # c IN SelectSeq(state.conversations, other)

\* C40: no conversation of the client's store holds two messages with one id,
\* and each message is in the conversation its conversationId names;
\* addMessage of an id the named conversation holds changes nothing;
\* removeConversation(c) takes c out, leaves the other conversations as they
\* are and sets activeConversationId to null exactly when it was c.
C40_ChatStoreKeepsIdsUnique ==
  /\ \A i \in 1..Len(chat.conversations) :
       LET c == chat.conversations[i] IN
       /\ \A j, k \in 1..Len(c.messages) : j # k => c.messages[j].id # c.messages[k].id
       /\ \A j \in 1..Len(c.messages) : c.messages[j].conversationId = c.id
  /\ \A message \in ChatMessages :
       (\E i \in 1..Len(chat.conversations) :
          /\ chat.conversations[i].id = message.conversationId
          /\ \E j \in 1..Len(chat.conversations[i].messages) :
               chat.conversations[i].messages[j].id = message.id)
       => addMessage(chat, message) = chat
  /\ \A c \in ChatConvIds :
       LET after == removeConversation(chat, c) IN
       /\ \A i \in 1..Len(after.conversations) : after.conversations[i].id # c
       /\ after.conversations = ChatOthers(chat, c)
       /\ ChatOthers(after, c) = ChatOthers(chat, c)
       /\ (after.activeConversationId = 0 /\ chat.activeConversationId # 0)
          <=> chat.activeConversationId = c
       /\ chat.activeConversationId # c
          => after.activeConversationId = chat.activeConversationId

C40_Witness ==
  /\ Len(chat.conversations) = 1 /\ chat.conversations[1].id = 1
  /\ Len(chat.conversations[1].messages) = 2
  /\ chat.conversations[1].messages[1].id = 2 /\ chat.conversations[1].messages[2].id = 1
  /\ chat.conversations[1].messages[2].content = Hello
  /\ chat.activeConversationId = 1

====
